---- MODULE Spec2Model ----
(***************************************************************************)
(* Model of the go-fsk modem (fsk/fsk.go, fsk/core): construction (New),   *)
(* Encode, Decode and correlateWithFrequency.                              *)
(*                                                                         *)
(* Numbers.  The code computes in float64/float32.  The model computes in  *)
(* exact fixed point:                                                      *)
(*   - a phase is an integer number of 1/TwoPi-ths of a turn, so the       *)
(*     code's 2*math.Pi is TwoPi and 2*math.Pi*freq/SampleRate is          *)
(*     TwoPi*freq/SampleRate (exact for the sample rates of the model,     *)
(*     which all divide TwoPi*freq);                                       *)
(*   - math.Sin is a table of sines in thousandths (1000 is 1.0);          *)
(*   - a sample is an integer number of thousandths;                       *)
(*   - a correlation is an exact fraction [num, den].                      *)
(* Go slices are 0-based; a slice is a sequence s read with At(s, i).      *)
(***************************************************************************)
EXTENDS Integers, Sequences, FiniteSets, TLC

VARIABLES
    config,        \* Modem.config
    symbolPeriod,  \* Modem.symbolPeriod
    frequencies,   \* Modem.frequencies
    phase,         \* Modem.phase
    constructed,   \* FALSE until New has returned the Modem
    encData,       \* argument of the last Encode call
    encOut,        \* samples returned by the last Encode call
    encSymbols,    \* symbols the last Encode call transmitted, in order
    encPhase0,     \* Modem.phase when the last Encode call started
    nEnc,          \* number of Encode calls so far
    decCalled,     \* a Decode call has returned
    decIn,         \* argument of the last Decode call
    decOut,        \* bytes returned by the last Decode call
    decSymbols,    \* symbols the last Decode call detected, in order
    decWindows,    \* [start, end) of every window the last Decode call correlated
    redecoded,     \* the last call on the Modem was a Decode call given the buffer
                   \* of the Decode call before it
    panicked,      \* a Go run-time panic has ended the program
    chat,          \* a ChatSession, as NewChatSession returned it and its methods left it
    chatCalls,     \* calls made on the ChatSession so far, per method
    heardFrames,   \* frames of the incoming audio the capture device has delivered
    lastCapture,   \* what the last capture callback decoded and did with it
    pOutputSample, \* the device buffer the last playback callback filled
    mc,            \* a MultiChannelChat: channels, activeChans, username
    sessions,      \* the ChatSessions JoinChannel has created, in order of creation;
                   \* mc.channels maps a channel ID to an index in this heap
    listeners,     \* the sessions whose forwarding goroutine is running
    callers,       \* per calling goroutine, where it is in a MultiChannelChat method
    mcLast,        \* the last thing a MultiChannelChat method did or returned
    mcCalls,       \* MultiChannelChat methods called so far
    encoders,      \* per goroutine inside Modem.Encode, its locals and where it is
    sessionChannel,\* per session of the heap, the channelConfig.ID of the JoinChannel
                   \* call that created it (what its listener's closure holds)
    accepted,      \* the messages the capture callbacks put on the sessions' queues,
                   \* in the order they were put
    callbackLog,   \* the calls of mc.msgCallback so far, in order
    mix,           \* the two modems of the separate-frequencies test and its locals
    transmitter,   \* a Transmitter: signal, sampleIndex, and who holds mu
    transmitCall,  \* the Transmit call in progress or last returned: where it is,
                   \* its playback device, what it returned
    closeCall      \* the ChatSession.Close call in progress: the step it is at
                   \* (0: no call in progress), and the frames the capture device
                   \* had delivered when it began

vars == <<config, symbolPeriod, frequencies, phase, constructed,
          encData, encOut, encSymbols, encPhase0, nEnc,
          decCalled, decIn, decOut, decSymbols, decWindows, redecoded,
          panicked,
          chat, chatCalls, heardFrames, lastCapture, pOutputSample,
          mc, sessions, listeners, callers, mcLast, mcCalls, encoders,
          sessionChannel, accepted, callbackLog,
          mix, transmitter, transmitCall, closeCall>>

modemVars == <<config, symbolPeriod, frequencies, phase, constructed>>
encVars == <<encData, encOut, encSymbols, encPhase0, nEnc, encoders>>
decVars == <<decCalled, decIn, decOut, decSymbols, decWindows>>
chatVars == <<chat, chatCalls, heardFrames, lastCapture, pOutputSample>>
multiVars == <<mc, sessions, listeners, callers, mcLast, mcCalls>>
forwardVars == <<sessionChannel, accepted, callbackLog>>
standaloneVars == <<mix, transmitter, transmitCall, closeCall>>
transportVars == <<chatVars, multiVars, forwardVars, standaloneVars>>

----------------------------------------------------------------------------
(* Bounds of the model *)

MaxDataLen == 1
MaxEncodes == 2
MaxPad == 1
MaxSilence == 1
MaxHeard == 11     \* messages in the incoming audio
MaxShort == 1      \* capture callbacks with less than 4 symbol periods of frames
MaxSends == 2
MaxStops == 2
MaxCloses == 2
MaxCalls == 4      \* MultiChannelChat methods called
MaxAccepted == 2   \* messages the sessions of a MultiChannelChat accept
MaxMembership == 2 \* JoinChannel, LeaveChannel and Close calls while audio comes in
MaxOffset == 7     \* samples in front of an encoded signal
MaxTransmits == 2  \* Transmit calls on a Transmitter
MaxFrames == 2     \* frames of any value the capture device delivers
MaxAligned == 12   \* symbol periods of audio delivered in buffers of any size

----------------------------------------------------------------------------
(* Slices and arithmetic *)

At(s, i) == s[i + 1]

Zeros(n) == [i \in 1..n |-> 0]

Abs(x) == IF x < 0 THEN -x ELSE x

Bit(x, b) == (x \div (2^b)) % 2

\* x | (1 << b)
SetBit(x, b) == IF Bit(x, b) = 1 THEN x ELSE x + 2^b

\* one full turn, 2*math.Pi, in phase steps
TwoPi == 48

\* sin(k * 2*pi/48) in thousandths, for the first quarter turn
QuarterSine == <<0, 130, 258, 382, 500, 608, 708, 794, 866, 924, 966, 992, 1000>>

\* math.Sin
Sin(p) ==
    LET k == p % TwoPi
    IN  IF k <= 12 THEN At(QuarterSine, k)
        ELSE IF k <= 24 THEN At(QuarterSine, 24 - k)
        ELSE IF k <= 36 THEN -At(QuarterSine, k - 24)
        ELSE -At(QuarterSine, 48 - k)

\* 2 * math.Pi * freq / float64(SampleRate)
PhaseIncrement(freq, sampleRate) == (TwoPi * freq) \div sampleRate

\* phase += phaseIncrement; if phase >= 2*math.Pi { phase -= 2*math.Pi }
AdvancePhase(p, inc) == IF p + inc >= TwoPi THEN p + inc - TwoPi ELSE p + inc

----------------------------------------------------------------------------
(* Configurations *)

Cfg(b, s, o, r, sr) ==
    [BaseFreq |-> b, FreqSpacing |-> s, Order |-> o, BaudRate |-> r, SampleRate |-> sr]

\* 4 tones, half and whole cycles per symbol (the shape of DefaultConfig at a
\* small sample rate)
SmallConfig == Cfg(2, 2, 2, 4, 48)

\* the configurations engines are built from in Spec
Configs ==
    { SmallConfig,
      Cfg(2, 2, 1, 4, 48),     \* 2 tones, half and whole cycles per symbol
      Cfg(1, 1, 3, 2, 24),     \* 8 tones, half cycles per symbol
      Cfg(2, 2, 4, 4, 48),     \* 16 tones, the upper ones at and above half the sample rate
      Cfg(1, 2, 2, 7, 24),     \* 24/7 = 3.43
      Cfg(3, 3, 2, 32, 48),    \* 48/32 = 1.5
      Cfg(2, 2, 1, 64, 48) }   \* symbol rate above the sample rate

\* the configurations New is applied to in SpecNew
ConfigSpace ==
    { Cfg(b, s, o, r, sr) : b \in {1, 2, 3}, s \in {1, 2, 3}, o \in 1..4,
                            r \in {1, 2, 3, 5, 7, 32, 64}, sr \in {16, 24, 48} }

----------------------------------------------------------------------------
(* New *)

\* New rounding the symbol period to the nearest integer
New_Rounded(c) ==
    [ config       |-> c,
      symbolPeriod |-> (2 * c.SampleRate + c.BaudRate) \div (2 * c.BaudRate),
      frequencies  |-> [i \in 1..(2^c.Order) |-> c.BaseFreq + (i - 1) * c.FreqSpacing],
      phase        |-> [i \in 1..(2^c.Order) |-> 0] ]

\* New with the table starting one spacing above the base frequency
New_FromOne(c) ==
    [ config       |-> c,
      symbolPeriod |-> c.SampleRate \div c.BaudRate,
      frequencies  |-> [i \in 1..(2^c.Order) |-> c.BaseFreq + i * c.FreqSpacing],
      phase        |-> [i \in 1..(2^c.Order) |-> 0] ]

\* the Modem New returns
New(c) ==
    [ config       |-> c,
      symbolPeriod |-> c.SampleRate \div c.BaudRate,
      frequencies  |-> [i \in 1..(2^c.Order) |-> c.BaseFreq + (i - 1) * c.FreqSpacing],
      phase        |-> Zeros(2^c.Order) ]

----------------------------------------------------------------------------
(* Encode *)

\* EncodeSymbolCount without the ceiling
EncodeSymbolCount_Floor(totalBits, bitsPerSymbol) == totalBits \div bitsPerSymbol

\* symbolCount := (totalBits + bitsPerSymbol - 1) / bitsPerSymbol
EncodeSymbolCount(totalBits, bitsPerSymbol) ==
    (totalBits + bitsPerSymbol - 1) \div bitsPerSymbol

\* ExtractBit taking the bits of a byte least significant first
ExtractBit_LsbFirstByte(data, bitsPerSymbol, bit, bitIndex, symbol) ==
    LET byteIdx   == bitIndex \div 8
        bitInByte == bitIndex % 8
    IN  IF Bit(At(data, byteIdx), bitInByte) # 0
        THEN SetBit(symbol, bitsPerSymbol - 1 - bit)
        ELSE symbol

\* the body of the bit loop of Encode: symbol after data bit bitIndex is taken
\*   if data[byteIdx]&(1<<bitInByte) != 0 { symbol |= 1 << (bitsPerSymbol - 1 - bit) }
ExtractBit(data, bitsPerSymbol, bit, bitIndex, symbol) ==
    LET byteIdx   == bitIndex \div 8
        bitInByte == 7 - (bitIndex % 8)
    IN  IF Bit(At(data, byteIdx), bitInByte) # 0
        THEN SetBit(symbol, bitsPerSymbol - 1 - bit)
        ELSE symbol

\* the bit loop of Encode: for bit := 0; bit < bitsPerSymbol && bitIndex < totalBits; bit++
RECURSIVE ExtractBits(_, _, _, _, _)
ExtractBits(data, bitsPerSymbol, bit, bitIndex, symbol) ==
    IF bit < bitsPerSymbol /\ bitIndex < Len(data) * 8
    THEN ExtractBits(data, bitsPerSymbol, bit + 1, bitIndex + 1,
                     ExtractBit(data, bitsPerSymbol, bit, bitIndex, symbol))
    ELSE [symbol |-> symbol, bitIndex |-> bitIndex]

\* float32(0.5 * math.Sin(phase))
EncodeSample(p) == Sin(p) \div 2

\* EmitSample keeping one phase accumulator for all table entries
EmitSample_OnePhase(symbol, phaseIncrement, outputIdx, ph, output) ==
    [ phase  |-> [ph EXCEPT ![1] = AdvancePhase(@, phaseIncrement)],
      output |-> [output EXCEPT ![outputIdx + 1] = EncodeSample(At(ph, 0))] ]

\* the sample written and the accumulator advanced in the sample loop of Encode:
\*   output[outputIdx] = float32(0.5 * math.Sin(m.phase[symbol]))
\*   m.phase[symbol] += phaseIncrement, wrapped
EmitSample(symbol, phaseIncrement, outputIdx, ph, output) ==
    [ phase  |-> [ph EXCEPT ![symbol + 1] = AdvancePhase(@, phaseIncrement)],
      output |-> [output EXCEPT ![outputIdx + 1] = EncodeSample(At(ph, symbol))] ]

\* the sample loop of Encode: for sampleIdx := 0; sampleIdx < m.symbolPeriod; sampleIdx++
RECURSIVE GenerateWaveform(_, _, _, _, _, _, _)
GenerateWaveform(symbolIdx, symbol, phaseIncrement, period, sampleIdx, ph, output) ==
    IF sampleIdx < period
    THEN LET outputIdx == symbolIdx * period + sampleIdx
         IN  IF outputIdx < Len(output)
             THEN LET e == EmitSample(symbol, phaseIncrement, outputIdx, ph, output)
                  IN  GenerateWaveform(symbolIdx, symbol, phaseIncrement, period,
                                       sampleIdx + 1, e.phase, e.output)
             ELSE GenerateWaveform(symbolIdx, symbol, phaseIncrement, period,
                                   sampleIdx + 1, ph, output)
    ELSE [phase |-> ph, output |-> output]

\* the symbol loop of Encode: for symbolIdx := 0; symbolIdx < symbolCount; symbolIdx++
RECURSIVE EncodeLoop(_, _, _, _, _, _, _)
EncodeLoop(m, data, symbolIdx, bitIndex, ph, output, symbols) ==
    IF symbolIdx < EncodeSymbolCount(Len(data) * 8, m.config.Order)
    THEN LET ex   == ExtractBits(data, m.config.Order, 0, bitIndex, 0)
             freq == At(m.frequencies, ex.symbol)
             inc  == PhaseIncrement(freq, m.config.SampleRate)
             gen  == GenerateWaveform(symbolIdx, ex.symbol, inc, m.symbolPeriod, 0, ph, output)
         IN  EncodeLoop(m, data, symbolIdx + 1, ex.bitIndex, gen.phase, gen.output,
                        Append(symbols, ex.symbol))
    ELSE [output |-> output, phase |-> ph, symbols |-> symbols]

\* Encode starting every call from accumulators at 0
Encode_FromZero(m, data) ==
    LET symbolCount == EncodeSymbolCount(Len(data) * 8, m.config.Order)
    IN  EncodeLoop(m, data, 0, 0, Zeros(Len(m.phase)),
                   Zeros(symbolCount * m.symbolPeriod), <<>>)

\* Modem.Encode on the modem m: the samples returned, the phase accumulators
\* it leaves behind and the symbols it transmitted
Encode(m, data) ==
    LET symbolCount == EncodeSymbolCount(Len(data) * 8, m.config.Order)
    IN  EncodeLoop(m, data, 0, 0, m.phase, Zeros(symbolCount * m.symbolPeriod), <<>>)

----------------------------------------------------------------------------
(* Decode *)

\* the sample loop of correlateWithFrequency: for _, sample := range signal
RECURSIVE CorrelateLoop(_, _, _, _, _)
CorrelateLoop(signal, phaseIncrement, i, ph, correlation) ==
    IF i < Len(signal)
    THEN LET reference == Sin(ph)
         IN  CorrelateLoop(signal, phaseIncrement, i + 1, AdvancePhase(ph, phaseIncrement),
                           correlation + At(signal, i) * reference)
    ELSE correlation

\* correlateWithFrequency starting its reference at the modem's first phase
\* accumulator instead of 0.0
correlateWithFrequency_FromModemPhase(m, signal, freq) ==
    [ num |-> Abs(CorrelateLoop(signal, PhaseIncrement(freq, m.config.SampleRate), 0,
                                At(m.phase, 0), 0)),
      den |-> Len(signal) ]

\* Modem.correlateWithFrequency: math.Abs(correlation) / float64(len(signal)),
\* the reference phase starting at 0.0
correlateWithFrequency(m, signal, freq) ==
    [ num |-> Abs(CorrelateLoop(signal, PhaseIncrement(freq, m.config.SampleRate), 0, 0, 0)),
      den |-> Len(signal) ]

\* CorrGreater letting an equal correlation win
CorrGreater_OrEqual(a, b) == a.num * b.den >= b.num * a.den

\* a > b on correlations (fractions with denominators >= 0)
CorrGreater(a, b) == a.num * b.den > b.num * a.den

\* maxCorrelation := -1.0
MinusOne == [num |-> -1, den |-> 1]

\* the frequency loop of Decode: for freqIdx, freq := range m.frequencies
RECURSIVE DetectLoop(_, _, _, _, _)
DetectLoop(m, window, freqIdx, maxCorrelation, detectedSymbol) ==
    IF freqIdx < Len(m.frequencies)
    THEN LET correlation == correlateWithFrequency(m, window, At(m.frequencies, freqIdx))
         IN  IF CorrGreater(correlation, maxCorrelation)
             THEN DetectLoop(m, window, freqIdx + 1, correlation, freqIdx)
             ELSE DetectLoop(m, window, freqIdx + 1, maxCorrelation, detectedSymbol)
    ELSE detectedSymbol

\* start and end of window symbolIdx: end is clipped to len(signal)
WindowOf(m, signal, symbolIdx) ==
    LET start == symbolIdx * m.symbolPeriod
        end   == start + m.symbolPeriod
    IN  [start |-> start, end |-> IF end > Len(signal) THEN Len(signal) ELSE end]

\* signal[start:end]
Slice(signal, start, end) == SubSeq(signal, start + 1, end)

\* the window loop of Decode: for symbolIdx := 0; symbolIdx < symbolCount; symbolIdx++
RECURSIVE DecodeSymbols(_, _, _, _, _, _)
DecodeSymbols(m, signal, symbolCount, symbolIdx, symbols, windows) ==
    IF symbolIdx < symbolCount
    THEN LET w == WindowOf(m, signal, symbolIdx)
             detectedSymbol == DetectLoop(m, Slice(signal, w.start, w.end), 0, MinusOne, 0)
         IN  DecodeSymbols(m, signal, symbolCount, symbolIdx + 1,
                           Append(symbols, detectedSymbol), Append(windows, w))
    ELSE [symbols |-> symbols, windows |-> windows]

\* PlaceBit taking the bits of the symbol least significant first
PlaceBit_LsbFirstSymbol(symbol, bitsPerSymbol, bit, bitIndex, output) ==
    LET byteIdx   == bitIndex \div 8
        bitInByte == 7 - (bitIndex % 8)
    IN  IF Bit(symbol, bit) # 0
        THEN [output EXCEPT ![byteIdx + 1] = SetBit(@, bitInByte)]
        ELSE output

\* the body of the bit loop of Decode: output after bit bitIndex is placed
\*   if symbol&(1<<(bitsPerSymbol-1-bit)) != 0 { output[byteIdx] |= 1 << bitInByte }
PlaceBit(symbol, bitsPerSymbol, bit, bitIndex, output) ==
    LET byteIdx   == bitIndex \div 8
        bitInByte == 7 - (bitIndex % 8)
    IN  IF Bit(symbol, bitsPerSymbol - 1 - bit) # 0
        THEN [output EXCEPT ![byteIdx + 1] = SetBit(@, bitInByte)]
        ELSE output

\* the bit loop of Decode: for bit := 0; bit < bitsPerSymbol && bitIndex < totalBits; bit++
RECURSIVE PlaceBits(_, _, _, _, _, _)
PlaceBits(symbol, bitsPerSymbol, totalBits, bit, bitIndex, output) ==
    IF bit < bitsPerSymbol /\ bitIndex < totalBits
    THEN PlaceBits(symbol, bitsPerSymbol, totalBits, bit + 1, bitIndex + 1,
                   PlaceBit(symbol, bitsPerSymbol, bit, bitIndex, output))
    ELSE [output |-> output, bitIndex |-> bitIndex]

\* the symbol loop of the byte assembly of Decode: for _, symbol := range symbols
RECURSIVE SymbolsToBytes(_, _, _, _, _, _)
SymbolsToBytes(symbols, bitsPerSymbol, totalBits, k, bitIndex, output) ==
    IF k < Len(symbols)
    THEN LET pl == PlaceBits(At(symbols, k), bitsPerSymbol, totalBits, 0, bitIndex, output)
         IN  SymbolsToBytes(symbols, bitsPerSymbol, totalBits, k + 1, pl.bitIndex, pl.output)
    ELSE output

\* DecodeByteCount trimmed to whole bytes
DecodeByteCount_Trim(totalBits) == totalBits \div 8

\* byteCount := (totalBits + 7) / 8
DecodeByteCount(totalBits) == (totalBits + 7) \div 8

\* DecodeSymbolCount counting a trailing partial period as a window
DecodeSymbolCount_Ceil(m, signal) ==
    (Len(signal) + m.symbolPeriod - 1) \div m.symbolPeriod

\* symbolCount := len(signal) / m.symbolPeriod  (m.symbolPeriod # 0)
DecodeSymbolCount(m, signal) == Len(signal) \div m.symbolPeriod

\* Modem.Decode on the modem m: the bytes returned (nil is the empty slice),
\* the symbols detected and the windows correlated; an integer division by
\* zero is a run-time panic
Decode(m, signal) ==
    IF m.symbolPeriod = 0
    THEN [panic |-> TRUE, output |-> <<>>, symbols |-> <<>>, windows |-> <<>>]
    ELSE LET symbolCount == DecodeSymbolCount(m, signal)
         IN  IF symbolCount = 0
             THEN [panic |-> FALSE, output |-> <<>>, symbols |-> <<>>, windows |-> <<>>]
             ELSE LET det       == DecodeSymbols(m, signal, symbolCount, 0, <<>>, <<>>)
                      totalBits == symbolCount * m.config.Order
                  IN  [ panic   |-> FALSE,
                        output  |-> SymbolsToBytes(det.symbols, m.config.Order, totalBits, 0, 0,
                                                   Zeros(DecodeByteCount(totalBits))),
                        symbols |-> det.symbols,
                        windows |-> det.windows ]

---------------------------------------------------------------------------------------------------------------------------------------------------
(* Inputs *)

RECURSIVE SeqsUpTo(_, _)
SeqsUpTo(S, n) ==
    IF n = 0 THEN {<<>>}
    ELSE LET shorter == SeqsUpTo(S, n - 1)
         IN  shorter \cup {Append(q, x) : q \in {r \in shorter : Len(r) = n - 1}, x \in S}

\* the byte value short messages are made of: 0xA6 = 10100110
ByteVals == {166}

\* the byte sequences handed to Encode: short messages, and one of 24 bits
\* (0xA6 0x1B 0xA6), a whole number of symbols at every order of the model
Data == SeqsUpTo(ByteVals, MaxDataLen) \cup {<<166, 27, 166>>}

\* sample values that follow a signal in the caller's buffer
PadVals == {700}

Pads == SeqsUpTo(PadVals, MaxPad)

\* the sample buffers handed to Decode: the last encoded signal or some
\* symbol periods of silence, followed by a few more samples; or the buffer
\* of the last Decode call again
DecodeInputs ==
    {base \o pad : base \in {encOut} \cup {Zeros(k * symbolPeriod) : k \in 1..MaxSilence},
                   pad \in Pads}
    \cup (IF decCalled THEN {decIn} ELSE {})

----------------------------------------------------------------------------
(* ChatSession: the duplex session of fsk/fsk.go (and fsk/realtime/chat.go) *)
(*                                                                          *)
(* A string is the sequence of its bytes.  A device buffer is a sequence of *)
(* bytes, two per frame, little endian.  A captured sample, the code's      *)
(* float32(sample)/32767.0, is kept exactly, as its numerator over 32767.   *)
(* A device is "nil" until InitDevice returned it, then "initialized",      *)
(* "started" and, once Stop and Uninit were called on it, "uninit".         *)

\* make(chan string, 10)
QueueCapacity == 10

\* the quotient truncated toward zero, as Go converts a float to an integer
TruncDiv(a, b) == IF a >= 0 THEN a \div b ELSE -((-a) \div b)

\* binary.LittleEndian.PutUint16(buf, uint16(sample))
PutUint16(sample) ==
    LET u == IF sample < 0 THEN sample + 65536 ELSE sample
    IN  <<u % 256, u \div 256>>

\* int16(binary.LittleEndian.Uint16(buf))
Int16Of(lo, hi) ==
    LET u == lo + 256 * hi
    IN  IF u >= 32768 THEN u - 65536 ELSE u

\* the playback callback converting without clamping
Clamp_None(floatSample) == floatSample

\* if floatSample > 1.0 { floatSample = 1.0 }; if floatSample < -1.0 { ... }
Clamp(floatSample) ==
    IF floatSample > 1000 THEN 1000
    ELSE IF floatSample < -1000 THEN -1000 ELSE floatSample

\* int16(floatSample * 32767)
ToInt16(floatSample) == TruncDiv(floatSample * 32767, 1000)

\* NewChatSession(modem), the audio context allocated
NewChatSession(modem) ==
    [ modem |-> modem,
      ctx |-> "allocated",
      captureDevice |-> "nil",
      playbackDevice |-> "nil",
      capturedSamples |-> <<>>,
      playbackSignal |-> <<>>,
      playbackIndex |-> 0,
      messageQueue |-> <<>>,
      queueClosed |-> FALSE,
      running |-> FALSE,
      \* how many times each resource was released
      captureUninits |-> 0,
      playbackUninits |-> 0,
      ctxFrees |-> 0 ]

\* the ways ChatSession.Start returns
StartOutcomes ==
    {"ok", "capture init fails", "playback init fails",
     "capture start fails", "playback start fails"}

\* c.Start() when the audio layer answers as outcome says
Start(c, outcome) ==
    IF outcome = "capture init fails" THEN c
    ELSE IF outcome = "playback init fails"
    THEN [c EXCEPT !.captureDevice = "initialized"]
    ELSE IF outcome = "capture start fails"
    THEN [c EXCEPT !.captureDevice = "initialized", !.playbackDevice = "initialized"]
    ELSE IF outcome = "playback start fails"
    THEN [c EXCEPT !.captureDevice = "started", !.playbackDevice = "initialized"]
    ELSE [c EXCEPT !.captureDevice = "started", !.playbackDevice = "started",
                   !.running = TRUE]

\* select { case c.messageQueue <- decodedStr: default: } on an open queue,
\* replacing the oldest message when the queue is full
TrySend_DropOldest(queue, decodedStr) ==
    IF Len(queue) < QueueCapacity THEN Append(queue, decodedStr)
    ELSE Append(Tail(queue), decodedStr)

\* select { case c.messageQueue <- decodedStr: default: } on an open queue
TrySend(queue, decodedStr) ==
    IF Len(queue) < QueueCapacity THEN Append(queue, decodedStr) ELSE queue

\* the samples the capture callback appends for a device buffer
CapturedOf(pInputSamples) ==
    [k \in 1..(Len(pInputSamples) \div 2) |->
        Int16Of(pInputSamples[2 * k - 1], pInputSamples[2 * k])]

\* onRecvFrames taking a result made of zero bytes for no result
onRecvFrames_SkipSilence(c, pInputSamples) ==
    LET samples == c.capturedSamples \o CapturedOf(pInputSamples)
    IN  IF Len(samples) >= c.modem.symbolPeriod * 4
        THEN LET r == Decode(c.modem, samples)
                 heard == \E i \in 1..Len(r.output) : r.output[i] # 0
             IN  [ chat |-> [c EXCEPT !.capturedSamples = <<>>,
                                      !.messageQueue =
                                          IF heard THEN TrySend(@, r.output) ELSE @],
                   decoded |-> IF heard THEN r.output ELSE <<>>,
                   sent |-> heard /\ Len(c.messageQueue) < QueueCapacity,
                   panic |-> FALSE ]
        ELSE [ chat |-> [c EXCEPT !.capturedSamples = samples],
               decoded |-> <<>>, sent |-> FALSE, panic |-> FALSE ]

\* onRecvFrames keeping the samples it has decoded
onRecvFrames_KeepSamples(c, pInputSamples) ==
    LET samples == c.capturedSamples \o CapturedOf(pInputSamples)
    IN  IF Len(samples) >= c.modem.symbolPeriod * 4
        THEN LET r == Decode(c.modem, samples)
             IN  [ chat |-> [c EXCEPT !.capturedSamples = samples,
                                      !.messageQueue =
                                          IF Len(r.output) > 0 THEN TrySend(@, r.output) ELSE @],
                   decoded |-> r.output,
                   sent |-> Len(r.output) > 0 /\ Len(c.messageQueue) < QueueCapacity,
                   panic |-> FALSE ]
        ELSE [ chat |-> [c EXCEPT !.capturedSamples = samples],
               decoded |-> <<>>, sent |-> FALSE, panic |-> FALSE ]

\* onRecvFrames, the capture callback of Start, under c.mu:
\* the session it leaves, what it decoded, and whether it panicked
onRecvFrames(c, pInputSamples) ==
    LET samples == c.capturedSamples \o CapturedOf(pInputSamples)
    IN  IF Len(samples) >= c.modem.symbolPeriod * 4
        THEN LET r == Decode(c.modem, samples)
             IN  IF r.panic
                 THEN [ chat |-> [c EXCEPT !.capturedSamples = samples],
                        decoded |-> <<>>, sent |-> FALSE, panic |-> TRUE ]
                 ELSE IF Len(r.output) > 0
                 THEN IF c.queueClosed
                      THEN [ chat |-> [c EXCEPT !.capturedSamples = samples],
                             decoded |-> r.output, sent |-> FALSE, panic |-> TRUE ]
                      ELSE [ chat |-> [c EXCEPT !.capturedSamples = <<>>,
                                                !.messageQueue = TrySend(@, r.output)],
                             decoded |-> r.output,
                             sent |-> Len(c.messageQueue) < QueueCapacity,
                             panic |-> FALSE ]
                 ELSE [ chat |-> [c EXCEPT !.capturedSamples = <<>>],
                        decoded |-> <<>>, sent |-> FALSE, panic |-> FALSE ]
        ELSE [ chat |-> [c EXCEPT !.capturedSamples = samples],
               decoded |-> <<>>, sent |-> FALSE, panic |-> FALSE ]

\* the frame loop of onSendFrames from frame i on: the play cursor it leaves
\* and the device buffer it has written
RECURSIVE SendFramesLoop(_, _, _, _, _)
SendFramesLoop(playbackSignal, framecount, i, playbackIndex, out) ==
    IF i < framecount
    THEN LET playing == playbackIndex < Len(playbackSignal)
             sample == IF playing THEN ToInt16(Clamp(At(playbackSignal, playbackIndex)))
                       ELSE 0
             outputIndex == i * 2
             b == PutUint16(sample)
             written == IF outputIndex + 1 < Len(out)
                        THEN [out EXCEPT ![outputIndex + 1] = b[1],
                                         ![outputIndex + 2] = b[2]]
                        ELSE out
         IN  IF playing
             THEN SendFramesLoop(playbackSignal, framecount, i + 1, playbackIndex + 1, written)
             ELSE SendFramesLoop(playbackSignal, framecount, i + 1, playbackIndex, written)
    ELSE [playbackIndex |-> playbackIndex, out |-> out]

\* onSendFrames never moving the cursor past the last sample
onSendFrames_HoldLast(c, pOut, framecount) ==
    LET r == SendFramesLoop(c.playbackSignal, framecount, 0, c.playbackIndex, pOut)
    IN  [ chat |-> [c EXCEPT !.playbackIndex =
                                 IF r.playbackIndex = Len(c.playbackSignal)
                                    /\ r.playbackIndex > c.playbackIndex
                                 THEN r.playbackIndex - 1 ELSE r.playbackIndex],
          out |-> r.out ]

\* onSendFrames, the playback callback of Start, under c.mu
onSendFrames(c, pOut, framecount) ==
    LET r == SendFramesLoop(c.playbackSignal, framecount, 0, c.playbackIndex, pOut)
    IN  [ chat |-> [c EXCEPT !.playbackIndex = r.playbackIndex], out |-> r.out ]

\* SendMessage queueing the encoding behind the samples still to be played
SendMessage_Append(c, message) ==
    LET r == Encode(c.modem, message)
    IN  [c EXCEPT !.modem.phase = r.phase,
                  !.playbackSignal = @ \o r.output]

\* c.SendMessage(message), under c.mu
SendMessage(c, message) ==
    LET r == Encode(c.modem, message)
    IN  [c EXCEPT !.modem.phase = r.phase,
                  !.playbackSignal = r.output,
                  !.playbackIndex = 0]

\* a device after Stop() and Uninit()
Released(device) == IF device = "nil" THEN "nil" ELSE "uninit"

\* c.Stop()
Stop(c) ==
    [c EXCEPT !.running = FALSE,
              !.captureDevice = Released(@),
              !.captureUninits = IF c.captureDevice # "nil" THEN @ + 1 ELSE @,
              !.playbackDevice = Released(@),
              !.playbackUninits = IF c.playbackDevice # "nil" THEN @ + 1 ELSE @]

\* c.Close(): the session it leaves and whether close(c.messageQueue) panicked
Close(c) ==
    LET stopped == Stop(c)
        freed == [stopped EXCEPT !.ctx = "freed", !.ctxFrees = @ + 1]
    IN  IF c.queueClosed
        THEN [chat |-> freed, panic |-> TRUE]
        ELSE [chat |-> [freed EXCEPT !.queueClosed = TRUE], panic |-> FALSE]

\* the configuration of the session of the model: 4 tones of half, one, one
\* and a half and two cycles per symbol of 6 samples
ChatConfig == Cfg(2, 2, 2, 4, 24)

----------------------------------------------------------------------------
(* MultiChannelChat (fsk/channels.go).  mc.mu is a read-write lock: the  *)
(* body of JoinChannel, LeaveChannel and Close runs under the write lock *)
(* and is one step; SendMessage and BroadcastMessage hold the read lock  *)
(* only while they read the registry, and that read is one step.         *)
(* An error is the ID of the channel it names; 0 is a nil error.         *)

\* SampleRate: 48000 in JoinChannel
JoinSampleRate == 48000

\* make(map[int]*ChatSession)
EmptyMap == [id \in {} |-> 0]

\* m[key] = value
MapPut(m, key, value) ==
    [k \in DOMAIN m \cup {key} |-> IF k = key THEN value ELSE m[k]]

\* delete(m, key)
MapDelete(m, key) == [k \in DOMAIN m \ {key} |-> m[k]]

\* NewMultiChannelChat(username, msgCallback)
NewMultiChannelChat(username) ==
    [channels |-> EmptyMap, activeChans |-> <<>>, username |-> username]

\* the ways JoinChannel's calls into the audio layer return: malgo.InitContext
\* fails, every call succeeds, or Start fails at its last step, both devices
\* initialized and the capture device running
JoinOutcomes == {"context fails", "ok", "playback start fails"}

\* JoinChannel recording the channel before it starts the session
JoinChannel_RegisterFirst(m, heap, channelConfig, order, baudRate, outcome) ==
    LET c == Cfg(channelConfig.BaseFreq, channelConfig.FreqSpacing, order, baudRate,
                 JoinSampleRate)
        h == Len(heap) + 1
        joined == [m EXCEPT !.channels = MapPut(@, channelConfig.ID, h),
                            !.activeChans = Append(@, channelConfig.ID)]
    IN  IF outcome = "context fails"
        THEN [mc |-> m, sessions |-> heap, spawned |-> 0, err |-> channelConfig.ID]
        ELSE [mc |-> joined,
              sessions |-> Append(heap, Start(NewChatSession(New(c)), outcome)),
              spawned |-> IF outcome = "ok" THEN h ELSE 0,
              err |-> IF outcome = "ok" THEN 0 ELSE channelConfig.ID]

\* mc.JoinChannel(channelConfig, order, baudRate), under mc.mu.Lock():
\* the registry and the heap it leaves, the session whose listener it
\* spawned (0: none), and the error it returns
JoinChannel(m, heap, channelConfig, order, baudRate, outcome) ==
    LET c == Cfg(channelConfig.BaseFreq, channelConfig.FreqSpacing, order, baudRate,
                 JoinSampleRate)
        h == Len(heap) + 1
    IN  IF outcome = "context fails"
        THEN [mc |-> m, sessions |-> heap, spawned |-> 0, err |-> channelConfig.ID]
        ELSE IF outcome # "ok"
        THEN [mc |-> m,
              sessions |-> Append(heap, Start(NewChatSession(New(c)), outcome)),
              spawned |-> 0, err |-> channelConfig.ID]
        ELSE [mc |-> [m EXCEPT !.channels = MapPut(@, channelConfig.ID, h),
                               !.activeChans = Append(@, channelConfig.ID)],
              sessions |-> Append(heap, Start(NewChatSession(New(c)), outcome)),
              spawned |-> h, err |-> 0]

\* the loop of LeaveChannel over mc.activeChans from index i on:
\* the list without the first occurrence of channelID
RECURSIVE RemoveFirst(_, _, _)
RemoveFirst(activeChans, channelID, i) ==
    IF i < Len(activeChans)
    THEN IF At(activeChans, i) = channelID
         THEN SubSeq(activeChans, 1, i) \o SubSeq(activeChans, i + 2, Len(activeChans))
         ELSE RemoveFirst(activeChans, channelID, i + 1)
    ELSE activeChans

\* mc.LeaveChannel(channelID), under mc.mu.Lock()
LeaveChannel(m, heap, channelID) ==
    IF channelID \notin DOMAIN m.channels
    THEN [mc |-> m, sessions |-> heap, err |-> channelID, panic |-> FALSE]
    ELSE LET h == m.channels[channelID]
             r == Close(heap[h])
         IN  [mc |-> [m EXCEPT !.channels = MapDelete(@, channelID),
                               !.activeChans = RemoveFirst(@, channelID, 0)],
              sessions |-> [heap EXCEPT ![h] = r.chat],
              err |-> 0, panic |-> r.panic]

\* chatSession, exists := mc.channels[channelID], under mc.mu.RLock()
Lookup(m, channelID) ==
    IF channelID \in DOMAIN m.channels
    THEN [exists |-> TRUE, chatSession |-> m.channels[channelID]]
    ELSE [exists |-> FALSE, chatSession |-> 0]

\* fmt.Sprintf("%s: %s", mc.username, message) without the sender
FullMessage_Bare(username, message) == message

\* fmt.Sprintf("%s: %s", mc.username, message)
FullMessage(username, message) == username \o <<58, 32>> \o message

\* the rest of mc.SendMessage after the lookup, the lock released:
\* the heap it leaves and the error it returns
Deliver(m, heap, channelID, message, found) ==
    IF ~found.exists
    THEN [sessions |-> heap, err |-> channelID]
    ELSE [sessions |-> [heap EXCEPT ![found.chatSession] =
                            SendMessage(@, FullMessage(m.username, message))],
          err |-> 0]

\* the listener calling the callback without the channel it serves
msgCallback_Untagged(log, channelID, msg) ==
    Append(log, [channelID |-> 0, username |-> "Remote", message |-> msg])

\* mc.msgCallback(channelConfig.ID, "Remote", msg) in the listener: the
\* application's callback, which sees the calls in the order they are made
msgCallback(log, channelID, msg) ==
    Append(log, [channelID |-> channelID, username |-> "Remote", message |-> msg])

\* the loop body of BroadcastMessage keeping the error of the last call only
NextLastErr_LastAttempt(lastErr, err) == err

\* if err := mc.SendMessage(channelID, message); err != nil { lastErr = err }
NextLastErr(lastErr, err) == IF err # 0 THEN err ELSE lastErr

\* the loop of mc.Close over the sessions hs: each one closed
RECURSIVE CloseAll(_, _)
CloseAll(heap, hs) ==
    IF hs = {} THEN [sessions |-> heap, panic |-> FALSE]
    ELSE LET h == CHOOSE x \in hs : \A y \in hs : x <= y
             r == Close(heap[h])
             rest == CloseAll([heap EXCEPT ![h] = r.chat], hs \ {h})
         IN  IF r.panic THEN [sessions |-> [heap EXCEPT ![h] = r.chat], panic |-> TRUE]
             ELSE rest

\* mc.Close(), under mc.mu.Lock()
CloseChat(m, heap) ==
    LET r == CloseAll(heap, {m.channels[id] : id \in DOMAIN m.channels})
    IN  [mc |-> IF r.panic THEN m
                ELSE [m EXCEPT !.channels = EmptyMap, !.activeChans = <<>>],
         sessions |-> r.sessions, panic |-> r.panic]

\* the sender identity of the model: "u"
Username == <<117>>

\* a goroutine that is not inside a MultiChannelChat method
Idle ==
    [pc |-> "idle", op |-> "none", channelID |-> 0, message |-> <<>>,
     found |-> [exists |-> FALSE, chatSession |-> 0],
     activeChannels |-> <<>>, i |-> 0, lastErr |-> 0, attempts |-> <<>>]

\* nothing has happened on the MultiChannelChat
NoEvent ==
    [event |-> "none", caller |-> 0, op |-> "none", channelID |-> 0, chatSession |-> 0,
     err |-> 0, member |-> FALSE, activeChannels |-> <<>>, attempts |-> <<>>]

\* the goroutine that calls SendMessage and BroadcastMessage, which take
\* several steps; JoinChannel, LeaveChannel and Close, one step each, are
\* called by any other goroutine while it is inside them
Callers == {1}

\* no method of a transport object has been called
NoTransportCalls ==
    /\ chatCalls = [start |-> 0, send |-> 0, stop |-> 0, close |-> 0, short |-> 0,
                    \* the last message sent, and the samples of the message
                    \* before it that were still to be played at that time
                    message |-> <<>>, truncated |-> 0]
    /\ heardFrames = 0
    /\ lastCapture = [decoded |-> <<>>, sent |-> FALSE, full |-> FALSE]
    /\ pOutputSample = <<>>
    /\ mc = NewMultiChannelChat(Username)
    /\ sessions = <<>>
    /\ listeners = {}
    /\ callers = [t \in Callers |-> Idle]
    /\ mcLast = NoEvent
    /\ mcCalls = 0
    /\ sessionChannel = <<>>
    /\ accepted = <<>>
    /\ callbackLog = <<>>

\* the separate-frequencies test has not run
NoMix ==
    [ pc |-> "off", modem1 |-> New(SmallConfig), modem2 |-> New(SmallConfig),
      message1 |-> <<>>, message2 |-> <<>>, signal1 |-> <<>>, signal2 |-> <<>>,
      mixed |-> <<>>, decoded1 |-> <<>>, decoded2 |-> <<>> ]

\* the goroutines that call Transmit on one Transmitter
TransmitCallers == {1, 2}

\* a sync.Mutex nobody holds; a held one names the function that locked it
\* and the Transmit call that function belongs to
Unlocked == [by |-> "nobody", call |-> 0]

\* NewTransmitter(modem): &Transmitter{modem: modem, ctx: ctx}; signal is nil,
\* sampleIndex 0 and mu unlocked
NewTransmitter(modem) ==
    [ modem |-> modem, signal |-> <<>>, sampleIndex |-> 0, mu |-> Unlocked ]

\* a goroutine that has not called Transmit: data is the argument, device the
\* local device ("nil" until InitDevice returned it) and deviceCalls the calls
\* that changed it, returned the error of the last call, transmissionTime the
\* len(t.signal) read for the sleep, callback whether the device's thread is
\* inside onSendFrames, calls the calls made so far, and accesses the reads and
\* writes of t.signal and t.sampleIndex made on behalf of its calls
NoTransmitCall ==
    [ pc |-> "idle", data |-> <<>>, device |-> "nil", deviceCalls |-> <<>>,
      returned |-> "nothing", transmissionTime |-> 0, callback |-> "idle",
      calls |-> 0, accesses |-> {} ]

\* no Transmit call has been made on a Transmitter just created
NoTransmit ==
    /\ transmitter = NewTransmitter(New(ChatConfig))
    /\ transmitCall = [g \in TransmitCallers |-> NoTransmitCall]

\* no Close call is in progress on the ChatSession
NoCloseCall == [step |-> 0, heardFrames |-> 0]

\* the objects outside a session are unused
NoStandalone ==
    /\ mix = NoMix
    /\ NoTransmit
    /\ closeCall = NoCloseCall

\* a ChatSession just created, and nothing else
NoTransport ==
    /\ chat = NewChatSession(New(ChatConfig))
    /\ NoTransportCalls
    /\ NoStandalone

----------------------------------------------------------------------------
(* The modem as a state machine *)

\* number of k with symbols[k] = s
Occurrences(symbols, s) == Cardinality({k \in 1..Len(symbols) : symbols[k] = s})

\* *Modem
Modem ==
    [config |-> config, symbolPeriod |-> symbolPeriod,
     frequencies |-> frequencies, phase |-> phase]

\* the goroutines that call Encode on one Modem at the same time
Encoders == {1, 2}

\* a goroutine that has not called Encode: data, symbolCount, output, symbolIdx,
\* bitIndex, symbol, phaseIncrement and sampleIdx are the locals of Encode,
\* loaded is the value of m.phase[symbol] it last read
IdleEncoder ==
    [pc |-> "idle", data |-> <<>>, symbolCount |-> 0, output |-> <<>>,
     symbolIdx |-> 0, bitIndex |-> 0, symbol |-> 0, phaseIncrement |-> 0,
     sampleIdx |-> 0, loaded |-> 0]

\* no Encode or Decode call yet
Fresh ==
    /\ encData = <<>> /\ encOut = <<>> /\ encSymbols = <<>> /\ encPhase0 = <<>>
    /\ nEnc = 0
    /\ encoders = [g \in Encoders |-> IdleEncoder]
    /\ decCalled = FALSE
    /\ decIn = <<>> /\ decOut = <<>> /\ decSymbols = <<>> /\ decWindows = <<>>
    /\ redecoded = FALSE
    /\ panicked = FALSE

\* a Modem built by New from one of the configurations
Init ==
    /\ \E c \in Configs : \E m \in {New(c)} :
          /\ config = m.config
          /\ symbolPeriod = m.symbolPeriod
          /\ frequencies = m.frequencies
          /\ phase = m.phase
    /\ constructed = TRUE
    /\ Fresh
    /\ NoTransport

\* m.Encode(data)
EncodeStep(data) ==
    /\ constructed /\ ~panicked
    /\ nEnc < MaxEncodes
    /\ \E r \in {Encode(Modem, data)} :
           /\ phase' = r.phase
           /\ encOut' = r.output
           /\ encSymbols' = r.symbols
    /\ encData' = data
    /\ encPhase0' = phase
    /\ nEnc' = nEnc + 1
    /\ redecoded' = FALSE
    /\ UNCHANGED <<config, symbolPeriod, frequencies, constructed, decVars, panicked>>
    /\ UNCHANGED <<encoders, transportVars>>

\* m.Decode(signal)
DecodeStep(signal) ==
    /\ constructed /\ ~panicked
    /\ \E r \in {Decode(Modem, signal)} :
           IF r.panic
           THEN /\ panicked' = TRUE
                /\ UNCHANGED <<decVars, redecoded>>
           ELSE /\ panicked' = FALSE
                /\ decCalled' = TRUE
                /\ decIn' = signal
                /\ decOut' = r.output
                /\ decSymbols' = r.symbols
                /\ decWindows' = r.windows
                /\ redecoded' = (decCalled /\ signal = decIn)
    /\ UNCHANGED <<modemVars, encVars>>
    /\ UNCHANGED transportVars

EncodeAny == \E data \in Data : EncodeStep(data)

DecodeAny == \E signal \in DecodeInputs : DecodeStep(signal)

Next == EncodeAny \/ DecodeAny

Spec == Init /\ [][Next]_vars

----------------------------------------------------------------------------
(* New as a step: a configuration, then the Modem built from it *)

InitNew ==
    /\ config \in ConfigSpace
    /\ symbolPeriod = 0 /\ frequencies = <<>> /\ phase = <<>>
    /\ constructed = FALSE
    /\ Fresh
    /\ NoTransport

\* modem := New(config)
NewStep ==
    /\ ~constructed
    /\ \E m \in {New(config)} :
          /\ symbolPeriod' = m.symbolPeriod
          /\ frequencies' = m.frequencies
          /\ phase' = m.phase
          /\ config' = m.config
    /\ constructed' = TRUE
    /\ UNCHANGED <<encVars, decVars, redecoded, panicked>>
    /\ UNCHANGED transportVars

NextNew == NewStep

SpecNew == InitNew /\ [][NextNew]_vars

----------------------------------------------------------------------------
(* Decode on a buffer that starts some samples before the encoded signal *)

\* 4 tones of 1 to 4 cycles per symbol of 6 samples; 4 tones of 1 to 4 cycles
\* per symbol of 12 samples; 2 tones of 1 and 2 cycles per symbol of 24 samples
OffsetConfigs == { Cfg(8, 8, 2, 8, 48), Cfg(4, 4, 2, 4, 48), Cfg(2, 2, 1, 2, 48) }

\* 0x00, 0x1B (symbols 0, 1, 2, 3 at order 2), "h"
OffsetData == { <<0>>, <<27>>, <<104>> }

InitOffset ==
    /\ \E c \in OffsetConfigs : \E m \in {New(c)} :
          /\ config = m.config
          /\ symbolPeriod = m.symbolPeriod
          /\ frequencies = m.frequencies
          /\ phase = m.phase
    /\ constructed = TRUE
    /\ Fresh
    /\ NoTransport

\* m.Decode(append(lead, signal...)), lead being k samples of silence or of
\* one constant level
OffsetDecode ==
    /\ nEnc > 0
    /\ \E k \in 0..MaxOffset : \E v \in {0} \cup PadVals :
           DecodeStep([i \in 1..k |-> v] \o encOut)

\* signal := m.Encode(data) on the Modem just built, then calls of Decode
NextOffset == (\E data \in OffsetData : nEnc = 0 /\ EncodeStep(data)) \/ OffsetDecode

SpecOffset == InitOffset /\ [][NextOffset]_vars

----------------------------------------------------------------------------
(* Consecutive Encode calls on one Modem *)

\* 4, 8 and 16 tones at 2 and at 3 samples per symbol
ComposeConfigs == { Cfg(1, 1, o, r, 24) : o \in 2..4, r \in {8, 12} }

\* the messages: none, one byte, two bytes, three bytes
ComposeData == { <<>>, <<166>>, <<27>>, <<27, 104>>, <<166, 27, 121>> }

InitCompose ==
    /\ \E c \in ComposeConfigs : \E m \in {New(c)} :
          /\ config = m.config
          /\ symbolPeriod = m.symbolPeriod
          /\ frequencies = m.frequencies
          /\ phase = m.phase
    /\ constructed = TRUE
    /\ Fresh
    /\ NoTransport

\* m.Encode(data), one call after the other
ComposeEncode ==
    \E data \in ComposeData : EncodeStep(data)

SpecCompose == InitCompose /\ [][ComposeEncode]_vars

----------------------------------------------------------------------------
(* testSeparateFrequencies (examples/frequency_overlap): two modems on     *)
(* separate frequency ranges encode one message each, the two signals are  *)
(* added sample by sample, and each modem decodes the sum.                 *)

\* config1 and config2 of the test, which are 22000 and 24000 cycles per
\* second at 48000 samples per second: the second table starts at half the
\* sample rate, five spacings above the top of the first.  And a pair with
\* both tables below half the sample rate.
MixConfigs ==
    { <<Cfg(8, 2, 2, 4, 48), Cfg(24, 2, 2, 4, 48)>>,
      <<Cfg(2, 2, 2, 4, 48), Cfg(14, 2, 2, 4, 48)>> }

\* message1 and message2: 0x00, 0x1B, "h", "y"
MixMessages == { <<0>>, <<27>>, <<104>>, <<121>> }

\* mixed := make([]float32, len(signal1))
\* for i := 0; i < len(mixed) && i < len(signal2); i++ { mixed[i] = signal1[i] + signal2[i] }
MixSignals(signal1, signal2) ==
    [i \in 1..Len(signal1) |-> IF i <= Len(signal2) THEN signal1[i] + signal2[i] ELSE 0]

\* modem1 := fsk.New(config1); modem2 := fsk.New(config2)
InitMix ==
    /\ config = SmallConfig
    /\ symbolPeriod = 0 /\ frequencies = <<>> /\ phase = <<>>
    /\ constructed = FALSE
    /\ Fresh
    /\ chat = NewChatSession(New(ChatConfig))
    /\ NoTransportCalls
    /\ NoTransmit
    /\ closeCall = NoCloseCall
    /\ \E c \in MixConfigs : \E a \in MixMessages : \E b \in MixMessages :
          mix = [NoMix EXCEPT !.pc = "new", !.modem1 = New(c[1]), !.modem2 = New(c[2]),
                              !.message1 = a, !.message2 = b]

MixFrame == UNCHANGED <<modemVars, encVars, decVars, redecoded, panicked, chatVars,
                        multiVars, forwardVars, transmitter, transmitCall, closeCall>>

\* signal1 := modem1.Encode([]byte(message1))
MixEncode1 ==
    /\ mix.pc = "new"
    /\ \E r \in {Encode(mix.modem1, mix.message1)} :
          mix' = [mix EXCEPT !.pc = "encoded1", !.signal1 = r.output,
                             !.modem1.phase = r.phase]
    /\ MixFrame

\* signal2 := modem2.Encode([]byte(message2))
MixEncode2 ==
    /\ mix.pc = "encoded1"
    /\ \E r \in {Encode(mix.modem2, mix.message2)} :
          mix' = [mix EXCEPT !.pc = "encoded2", !.signal2 = r.output,
                             !.modem2.phase = r.phase]
    /\ MixFrame

\* the loop that fills mixed
MixSum ==
    /\ mix.pc = "encoded2"
    /\ mix' = [mix EXCEPT !.pc = "mixed", !.mixed = MixSignals(mix.signal1, mix.signal2)]
    /\ MixFrame

\* decoded1 := modem1.Decode(mixed)
MixDecode1 ==
    /\ mix.pc = "mixed"
    /\ \E r \in {Decode(mix.modem1, mix.mixed)} :
          mix' = [mix EXCEPT !.pc = "decoded1", !.decoded1 = r.output]
    /\ MixFrame

\* decoded2 := modem2.Decode(mixed)
MixDecode2 ==
    /\ mix.pc = "decoded1"
    /\ \E r \in {Decode(mix.modem2, mix.mixed)} :
          mix' = [mix EXCEPT !.pc = "decoded2", !.decoded2 = r.output]
    /\ MixFrame

NextMix == MixEncode1 \/ MixEncode2 \/ MixSum \/ MixDecode1 \/ MixDecode2

SpecMix == InitMix /\ [][NextMix]_vars

----------------------------------------------------------------------------
(* Two goroutines inside Encode on one Modem.  Encode takes no lock, so    *)
(* every read and every write of m.phase[symbol] is a step of its own, and *)
(* the steps of the two calls interleave freely.                           *)

\* 16 tones of 18 to 33 cycles per second at 48 samples per second, 1 sample
\* per symbol: tone 0 advances 3/8 of a turn per sample and wraps at its third
RaceConfig == Cfg(18, 1, 4, 48, 48)

\* the arguments of the concurrent calls: 0x00 (symbols 0, 0), 0x01 (symbols 0, 1)
RaceData == {<<0>>, <<1>>}

\* a Modem just built, no call on it yet
InitRace ==
    /\ \E m \in {New(RaceConfig)} :
          /\ config = m.config
          /\ symbolPeriod = m.symbolPeriod
          /\ frequencies = m.frequencies
          /\ phase = m.phase
    /\ constructed = TRUE
    /\ Fresh
    /\ NoTransport

\* what no step inside Encode changes
RaceFrame ==
    UNCHANGED <<config, symbolPeriod, frequencies, constructed,
                encData, encOut, encSymbols, encPhase0, nEnc,
                decVars, redecoded, panicked, transportVars>>

\* the head of the symbol loop for the locals e: the bits of the next symbol
\* extracted and its phaseIncrement computed, or the return of output
EnterSymbol(e) ==
    IF e.symbolIdx < e.symbolCount
    THEN LET ex == ExtractBits(e.data, config.Order, 0, e.bitIndex, 0)
         IN  [e EXCEPT !.pc = "sample", !.symbol = ex.symbol, !.bitIndex = ex.bitIndex,
                       !.phaseIncrement =
                           PhaseIncrement(At(frequencies, ex.symbol), config.SampleRate),
                       !.sampleIdx = 0]
    ELSE [e EXCEPT !.pc = "done"]

\* sampleIdx++ and the head of the sample loop, then symbolIdx++ and the head
\* of the symbol loop
NextSample(e) ==
    IF e.sampleIdx + 1 < symbolPeriod
    THEN [e EXCEPT !.pc = "sample", !.sampleIdx = @ + 1]
    ELSE EnterSymbol([e EXCEPT !.symbolIdx = @ + 1])

\* goroutine g calls m.Encode(data): the code up to the first sample
RaceCall(g, data) ==
    /\ encoders[g].pc = "idle"
    /\ LET symbolCount == EncodeSymbolCount(Len(data) * 8, config.Order)
       IN  encoders' = [encoders EXCEPT ![g] =
              EnterSymbol([IdleEncoder EXCEPT
                              !.data = data, !.symbolCount = symbolCount,
                              !.output = Zeros(symbolCount * symbolPeriod)])]
    /\ UNCHANGED phase
    /\ RaceFrame

\* output[outputIdx] = float32(0.5 * math.Sin(m.phase[symbol]))
RaceSample(g) ==
    /\ encoders[g].pc = "sample"
    /\ LET e == encoders[g]
           outputIdx == e.symbolIdx * symbolPeriod + e.sampleIdx
       IN  encoders' = [encoders EXCEPT ![g] =
              IF outputIdx < Len(e.output)
              THEN [e EXCEPT !.pc = "add: load",
                             !.output[outputIdx + 1] = EncodeSample(At(phase, e.symbol))]
              ELSE NextSample(e)]
    /\ UNCHANGED phase
    /\ RaceFrame

\* m.phase[symbol] += phaseIncrement: the read
RaceAddLoad(g) ==
    /\ encoders[g].pc = "add: load"
    /\ encoders' = [encoders EXCEPT ![g].pc = "add: store",
                                    ![g].loaded = At(phase, encoders[g].symbol)]
    /\ UNCHANGED phase
    /\ RaceFrame

\* m.phase[symbol] += phaseIncrement: the write
RaceAddStore(g) ==
    /\ encoders[g].pc = "add: store"
    /\ LET e == encoders[g]
       IN  phase' = [phase EXCEPT ![e.symbol + 1] = e.loaded + e.phaseIncrement]
    /\ encoders' = [encoders EXCEPT ![g].pc = "wrap: test"]
    /\ RaceFrame

\* if m.phase[symbol] >= 2*math.Pi
RaceWrapTest(g) ==
    /\ encoders[g].pc = "wrap: test"
    /\ LET e == encoders[g]
       IN  encoders' = [encoders EXCEPT ![g] =
              IF At(phase, e.symbol) >= TwoPi
              THEN [e EXCEPT !.pc = "wrap: load"]
              ELSE NextSample(e)]
    /\ UNCHANGED phase
    /\ RaceFrame

\* m.phase[symbol] -= 2 * math.Pi: the read
RaceWrapLoad(g) ==
    /\ encoders[g].pc = "wrap: load"
    /\ encoders' = [encoders EXCEPT ![g].pc = "wrap: store",
                                    ![g].loaded = At(phase, encoders[g].symbol)]
    /\ UNCHANGED phase
    /\ RaceFrame

\* m.phase[symbol] -= 2 * math.Pi: the write
RaceWrapStore(g) ==
    /\ encoders[g].pc = "wrap: store"
    /\ LET e == encoders[g]
       IN  /\ phase' = [phase EXCEPT ![e.symbol + 1] = e.loaded - TwoPi]
           /\ encoders' = [encoders EXCEPT ![g] = NextSample(e)]
    /\ RaceFrame

NextRace ==
    \/ \E g \in Encoders, data \in RaceData : RaceCall(g, data)
    \/ \E g \in Encoders : RaceSample(g)
    \/ \E g \in Encoders : RaceAddLoad(g)
    \/ \E g \in Encoders : RaceAddStore(g)
    \/ \E g \in Encoders : RaceWrapTest(g)
    \/ \E g \in Encoders : RaceWrapLoad(g)
    \/ \E g \in Encoders : RaceWrapStore(g)

SpecRace == InitRace /\ [][NextRace]_vars

----------------------------------------------------------------------------
(* One ChatSession as a state machine: its methods called by the        *)
(* application, its two callbacks called by the audio devices, and the  *)
(* reader of ReceiveMessages()                                          *)

\* the texts the application sends: "H", "i"
Texts == {<<72>>, <<105>>}

\* the bytes the remote station sends, one message each: "A", "B", ...
HeardBytes == [i \in 1..(MaxHeard + 1) |-> 64 + i]

\* a signal as the frames of a device buffer
FramesOf(signal) ==
    [n \in 1..(2 * Len(signal)) |->
        PutUint16(ToInt16(Clamp(signal[(n + 1) \div 2])))[2 - (n % 2)]]

\* the remote station's signal from its k-th message on, one Encode call each
RECURSIVE HeardSignal(_, _)
HeardSignal(m, k) ==
    IF k <= Len(HeardBytes)
    THEN LET r == Encode(m, <<HeardBytes[k]>>)
         IN  IF Len(r.output) > 0
             THEN r.output \o HeardSignal([m EXCEPT !.phase = r.phase], k + 1)
             ELSE <<>>
    ELSE <<>>

\* the incoming audio: the frames of the remote station's signal
HeardStream == FramesOf(HeardSignal(New(ChatConfig), 1))

\* frames the capture device delivers per callback: 2 or 4 symbol periods
CaptureSizes == {2 * New(ChatConfig).symbolPeriod, 4 * New(ChatConfig).symbolPeriod}

\* frames the playback device asks for per callback
PlaybackSizes == {10, 24}

\* a ChatSession just created on a Modem just created
InitChat ==
    /\ \E m \in {New(ChatConfig)} :
          /\ config = m.config
          /\ symbolPeriod = m.symbolPeriod
          /\ frequencies = m.frequencies
          /\ phase = m.phase
    /\ constructed = TRUE
    /\ Fresh
    /\ NoTransport

\* c.Start(), which its callers (JoinChannel, the command line) call once,
\* on the session NewChatSession returned
ChatStart(outcome) ==
    /\ ~panicked
    /\ chatCalls.start = 0
    /\ chat.ctx = "allocated"
    /\ chat' = Start(chat, outcome)
    /\ chatCalls' = [chatCalls EXCEPT !.start = @ + 1]
    /\ UNCHANGED <<modemVars, encVars, decVars, redecoded, panicked>>
    /\ UNCHANGED <<heardFrames, lastCapture, pOutputSample>>
    /\ UNCHANGED <<multiVars, forwardVars, standaloneVars>>

\* the capture device calls onRecvFrames with its next n frames
ChatCapture(n) ==
    /\ ~panicked
    /\ chat.captureDevice = "started"
    /\ heardFrames + n <= MaxHeard * 4 * chat.modem.symbolPeriod
    /\ n < 4 * chat.modem.symbolPeriod => chatCalls.short < MaxShort
    /\ \E r \in {onRecvFrames(chat, SubSeq(HeardStream, 2 * heardFrames + 1,
                                                        2 * (heardFrames + n)))} :
          /\ chat' = r.chat
          /\ panicked' = r.panic
          /\ lastCapture' = [decoded |-> r.decoded, sent |-> r.sent,
                             full |-> Len(chat.messageQueue) = QueueCapacity]
    /\ heardFrames' = heardFrames + n
    /\ chatCalls' = IF n < 4 * chat.modem.symbolPeriod
                    THEN [chatCalls EXCEPT !.short = @ + 1] ELSE chatCalls
    /\ UNCHANGED <<modemVars, encVars, decVars, redecoded>>
    /\ UNCHANGED pOutputSample
    /\ UNCHANGED <<multiVars, forwardVars, standaloneVars>>

\* the application receives from ReceiveMessages()
ChatReceive ==
    /\ ~panicked
    /\ Len(chat.messageQueue) > 0
    /\ chat' = [chat EXCEPT !.messageQueue = Tail(@)]
    /\ UNCHANGED <<modemVars, encVars, decVars, redecoded, panicked>>
    /\ UNCHANGED <<chatCalls, heardFrames, lastCapture, pOutputSample>>
    /\ UNCHANGED <<multiVars, forwardVars, standaloneVars>>

\* c.SendMessage(message)
ChatSend(message) ==
    /\ ~panicked
    /\ chatCalls.send < MaxSends
    /\ chat' = SendMessage(chat, message)
    /\ chatCalls' = [chatCalls EXCEPT !.send = @ + 1,
                                      !.message = message,
                                      !.truncated = Len(chat.playbackSignal)
                                                       - chat.playbackIndex]
    /\ UNCHANGED <<modemVars, encVars, decVars, redecoded, panicked>>
    /\ UNCHANGED <<heardFrames, lastCapture, pOutputSample>>
    /\ UNCHANGED <<multiVars, forwardVars, standaloneVars>>

\* the playback device calls onSendFrames for framecount frames
ChatPlayback(framecount) ==
    /\ ~panicked
    /\ chat.playbackDevice = "started"
    /\ \E r \in {onSendFrames(chat, Zeros(2 * framecount), framecount)} :
          /\ chat' = r.chat
          /\ pOutputSample' = r.out
    /\ UNCHANGED <<modemVars, encVars, decVars, redecoded, panicked>>
    /\ UNCHANGED <<chatCalls, heardFrames, lastCapture>>
    /\ UNCHANGED <<multiVars, forwardVars, standaloneVars>>

\* c.Stop()
ChatStop ==
    /\ ~panicked
    /\ chatCalls.stop < MaxStops
    /\ chat' = Stop(chat)
    /\ chatCalls' = [chatCalls EXCEPT !.stop = @ + 1]
    /\ UNCHANGED <<modemVars, encVars, decVars, redecoded, panicked>>
    /\ UNCHANGED <<heardFrames, lastCapture, pOutputSample>>
    /\ UNCHANGED <<multiVars, forwardVars, standaloneVars>>

\* c.Close()
ChatClose ==
    /\ ~panicked
    /\ chatCalls.close < MaxCloses
    /\ \E r \in {Close(chat)} :
          /\ chat' = r.chat
          /\ panicked' = r.panic
    /\ chatCalls' = [chatCalls EXCEPT !.close = @ + 1]
    /\ UNCHANGED <<modemVars, encVars, decVars, redecoded>>
    /\ UNCHANGED <<heardFrames, lastCapture, pOutputSample>>
    /\ UNCHANGED <<multiVars, forwardVars, standaloneVars>>

ChatStartAny == \E outcome \in StartOutcomes : ChatStart(outcome)

ChatCaptureAny == \E n \in CaptureSizes : ChatCapture(n)

ChatSendAny == \E message \in Texts : ChatSend(message)

ChatPlaybackAny == \E framecount \in PlaybackSizes : ChatPlayback(framecount)

\* the inbound half of a session and its life cycle
NextInbound ==
    \/ ChatStartAny
    \/ ChatCaptureAny
    \/ ChatReceive
    \/ ChatStop
    \/ ChatClose

SpecInbound == InitChat /\ [][NextInbound]_vars

\* the outbound half of a session and its life cycle
NextOutbound ==
    \/ ChatStartAny
    \/ ChatSendAny
    \/ ChatPlaybackAny
    \/ ChatStop
    \/ ChatClose

SpecOutbound == InitChat /\ [][NextOutbound]_vars

----------------------------------------------------------------------------
(* The conversion of the playback callback, float sample to 16-bit frame, *)
(* applied to one sample of any value                                      *)

\* float samples in thousandths: -2.0 to 2.0 in steps of 0.05, and the values
\* next to 0, 1.0 and -1.0
FloatSamples == {k * 50 : k \in -40..40} \cup {-1001, -999, -1, 1, 999, 1001}

\* a started session whose outbound buffer holds one sample
InitConvert ==
    /\ \E m \in {New(ChatConfig)} :
          /\ config = m.config
          /\ symbolPeriod = m.symbolPeriod
          /\ frequencies = m.frequencies
          /\ phase = m.phase
    /\ constructed = TRUE
    /\ Fresh
    /\ \E floatSample \in FloatSamples :
          chat = [Start(NewChatSession(New(ChatConfig)), "ok") EXCEPT
                     !.playbackSignal = <<floatSample>>]
    /\ NoTransportCalls
    /\ NoStandalone

SpecConvert == InitConvert /\ [][ChatPlaybackAny]_vars

----------------------------------------------------------------------------
(* The conversion of the capture callback, 16-bit frame to float sample, *)
(* applied to frames of any value                                         *)

\* 16-bit frame values: the two ends of the range, zero, and values between
FrameValues ==
    {-32768, -32767, -32766, -16384, -256, -1, 0, 1, 255, 16384, 32766, 32767}

\* a started session that has captured nothing
InitFrame ==
    /\ \E m \in {New(ChatConfig)} :
          /\ config = m.config
          /\ symbolPeriod = m.symbolPeriod
          /\ frequencies = m.frequencies
          /\ phase = m.phase
    /\ constructed = TRUE
    /\ Fresh
    /\ chat = Start(NewChatSession(New(ChatConfig)), "ok")
    /\ NoTransportCalls
    /\ NoStandalone

\* the capture device calls onRecvFrames with one frame of the value sample
FrameCapture(sample) ==
    /\ ~panicked
    /\ chat.captureDevice = "started"
    /\ heardFrames < MaxFrames
    /\ \E r \in {onRecvFrames(chat, PutUint16(sample))} :
          /\ chat' = r.chat
          /\ panicked' = r.panic
          /\ lastCapture' = [decoded |-> r.decoded, sent |-> r.sent,
                             full |-> Len(chat.messageQueue) = QueueCapacity]
    /\ heardFrames' = heardFrames + 1
    /\ UNCHANGED <<modemVars, encVars, decVars, redecoded>>
    /\ UNCHANGED <<chatCalls, pOutputSample>>
    /\ UNCHANGED <<multiVars, forwardVars, standaloneVars>>

FrameCaptureAny == \E sample \in FrameValues : FrameCapture(sample)

SpecFrame == InitFrame /\ [][FrameCaptureAny]_vars

----------------------------------------------------------------------------
(* A started session that hears silence and whose queue nobody reads *)

\* the configurations of the listening session: 2 to 16 tones, and 6 or 1
\* samples per symbol
TriggerConfigs == { Cfg(2, 2, o, r, 24) : o \in 1..4, r \in {4, 24} }

InitTrigger ==
    /\ \E c \in TriggerConfigs : \E m \in {New(c)} :
          /\ config = m.config
          /\ symbolPeriod = m.symbolPeriod
          /\ frequencies = m.frequencies
          /\ phase = m.phase
          /\ chat = Start(NewChatSession(m), "ok")
    /\ constructed = TRUE
    /\ Fresh
    /\ NoTransportCalls
    /\ NoStandalone

\* the capture device calls onRecvFrames with n frames of silence
SilenceCapture(n) ==
    /\ ~panicked
    /\ chat.captureDevice = "started"
    /\ heardFrames + n <= MaxHeard * 4 * chat.modem.symbolPeriod
    /\ \E r \in {onRecvFrames(chat, Zeros(2 * n))} :
          /\ chat' = r.chat
          /\ panicked' = r.panic
          /\ lastCapture' = [decoded |-> r.decoded, sent |-> r.sent,
                             full |-> Len(chat.messageQueue) = QueueCapacity]
    /\ heardFrames' = heardFrames + n
    /\ UNCHANGED <<modemVars, encVars, decVars, redecoded>>
    /\ UNCHANGED <<chatCalls, pOutputSample>>
    /\ UNCHANGED <<multiVars, forwardVars, standaloneVars>>

SilenceCaptureAny ==
    \E n \in {2 * symbolPeriod, 4 * symbolPeriod} : SilenceCapture(n)

SpecTrigger == InitTrigger /\ [][SilenceCaptureAny]_vars

----------------------------------------------------------------------------
(* A started session whose capture device delivers the incoming audio in *)
(* buffers of any size                                                   *)

\* frames per callback: less than a symbol period, a symbol period, 4 symbol
\* periods, and one frame more than 4 symbol periods
AlignSizes ==
    { New(ChatConfig).symbolPeriod - 1, New(ChatConfig).symbolPeriod,
      4 * New(ChatConfig).symbolPeriod, 4 * New(ChatConfig).symbolPeriod + 1 }

InitAlign ==
    /\ \E m \in {New(ChatConfig)} :
          /\ config = m.config
          /\ symbolPeriod = m.symbolPeriod
          /\ frequencies = m.frequencies
          /\ phase = m.phase
    /\ constructed = TRUE
    /\ Fresh
    /\ chat = Start(NewChatSession(New(ChatConfig)), "ok")
    /\ NoTransportCalls
    /\ NoStandalone

\* the capture device calls onRecvFrames with its next n frames
AlignCapture(n) ==
    /\ ~panicked
    /\ chat.captureDevice = "started"
    /\ heardFrames + n <= MaxAligned * chat.modem.symbolPeriod
    /\ \E r \in {onRecvFrames(chat, SubSeq(HeardStream, 2 * heardFrames + 1,
                                                        2 * (heardFrames + n)))} :
          /\ chat' = r.chat
          /\ panicked' = r.panic
          /\ lastCapture' = [decoded |-> r.decoded, sent |-> r.sent,
                             full |-> Len(chat.messageQueue) = QueueCapacity]
    /\ heardFrames' = heardFrames + n
    /\ UNCHANGED <<modemVars, encVars, decVars, redecoded>>
    /\ UNCHANGED <<chatCalls, pOutputSample>>
    /\ UNCHANGED <<multiVars, forwardVars, standaloneVars>>

AlignCaptureAny == \E n \in AlignSizes : AlignCapture(n)

SpecAlign == InitAlign /\ [][AlignCaptureAny]_vars

----------------------------------------------------------------------------
(* The outbound half of a started session whose playback device keeps *)
(* asking for frames                                                  *)

\* frames the playback device asks for per callback: one frame, less than a
\* message, a whole message of one byte
PlayoutSizes == {1, 10, 24}

\* a started session that has sent nothing
InitPlayout ==
    /\ \E m \in {New(ChatConfig)} :
          /\ config = m.config
          /\ symbolPeriod = m.symbolPeriod
          /\ frequencies = m.frequencies
          /\ phase = m.phase
    /\ constructed = TRUE
    /\ Fresh
    /\ chat = Start(NewChatSession(New(ChatConfig)), "ok")
    /\ NoTransportCalls
    /\ NoStandalone

PlayoutSend == \E message \in Texts : ChatSend(message)

PlayoutCallback == \E framecount \in PlayoutSizes : ChatPlayback(framecount)

NextPlayout == PlayoutSend \/ PlayoutCallback

\* the device is running and is not stopped: it keeps calling onSendFrames
SpecPlayout == InitPlayout /\ [][NextPlayout]_vars /\ WF_vars(PlayoutCallback)

----------------------------------------------------------------------------
(* ChatSession.Close step by step.  Close runs on the caller's goroutine  *)
(* and holds c.mu only while Stop clears c.running, so the capture        *)
(* callback, which the device calls for as long as it is started, runs    *)
(* between any two of its steps.                                          *)

\* Close closing the queue before it stops the devices
CloseOrder_QueueFirst ==
    << "clear running", "close queue", "stop capture", "uninit capture",
       "stop playback", "uninit playback", "free context" >>

\* the steps of c.Close() in the order of the code: Stop() (clear c.running
\* under c.mu, Stop and Uninit of the capture device, then of the playback
\* device), c.ctx.Uninit() and c.ctx.Free(), close(c.messageQueue)
CloseOrder ==
    << "clear running", "stop capture", "uninit capture",
       "stop playback", "uninit playback", "free context", "close queue" >>

\* the Close call in progress is about to take the step named
CloseAt(name) ==
    /\ ~panicked
    /\ closeCall.step > 0
    /\ CloseOrder[closeCall.step] = name

\* the Close call in progress has taken a step: the next one, or it returns
CloseAdvance ==
    closeCall' = IF closeCall.step < Len(CloseOrder)
                 THEN [closeCall EXCEPT !.step = @ + 1]
                 ELSE [closeCall EXCEPT !.step = 0]

\* a device after device.Stop(): no callback is made once Stop has returned
Stopped(device) == IF device \in {"initialized", "started"} THEN "stopped" ELSE device

\* what no step of Close changes
CloseFrame ==
    /\ UNCHANGED <<modemVars, encVars, decVars, redecoded>>
    /\ UNCHANGED <<heardFrames, lastCapture, pOutputSample>>
    /\ UNCHANGED <<multiVars, forwardVars, mix, transmitter, transmitCall>>

\* a session on which Start has returned, with or without an error
InitClosing ==
    /\ \E m \in {New(ChatConfig)} :
          /\ config = m.config
          /\ symbolPeriod = m.symbolPeriod
          /\ frequencies = m.frequencies
          /\ phase = m.phase
          /\ \E outcome \in StartOutcomes : chat = Start(NewChatSession(m), outcome)
    /\ constructed = TRUE
    /\ Fresh
    /\ NoTransportCalls
    /\ NoStandalone

\* the application calls c.Close()
CloseCalled ==
    /\ ~panicked
    /\ closeCall.step = 0
    /\ chatCalls.close < MaxCloses
    /\ closeCall' = [step |-> 1, heardFrames |-> heardFrames]
    /\ chatCalls' = [chatCalls EXCEPT !.close = @ + 1]
    /\ UNCHANGED <<chat, panicked>>
    /\ CloseFrame

\* c.mu.Lock(); c.running = false; c.mu.Unlock()
CloseClearRunning ==
    /\ CloseAt("clear running")
    /\ chat' = [chat EXCEPT !.running = FALSE]
    /\ CloseAdvance
    /\ UNCHANGED <<chatCalls, panicked>>
    /\ CloseFrame

\* if c.captureDevice != nil { c.captureDevice.Stop() ...
CloseStopCapture ==
    /\ CloseAt("stop capture")
    /\ chat' = [chat EXCEPT !.captureDevice = Stopped(@)]
    /\ CloseAdvance
    /\ UNCHANGED <<chatCalls, panicked>>
    /\ CloseFrame

\* ... c.captureDevice.Uninit() }
CloseUninitCapture ==
    /\ CloseAt("uninit capture")
    /\ chat' = [chat EXCEPT !.captureDevice = Released(@),
                            !.captureUninits =
                                IF chat.captureDevice # "nil" THEN @ + 1 ELSE @]
    /\ CloseAdvance
    /\ UNCHANGED <<chatCalls, panicked>>
    /\ CloseFrame

\* if c.playbackDevice != nil { c.playbackDevice.Stop() ...
CloseStopPlayback ==
    /\ CloseAt("stop playback")
    /\ chat' = [chat EXCEPT !.playbackDevice = Stopped(@)]
    /\ CloseAdvance
    /\ UNCHANGED <<chatCalls, panicked>>
    /\ CloseFrame

\* ... c.playbackDevice.Uninit() }
CloseUninitPlayback ==
    /\ CloseAt("uninit playback")
    /\ chat' = [chat EXCEPT !.playbackDevice = Released(@),
                            !.playbackUninits =
                                IF chat.playbackDevice # "nil" THEN @ + 1 ELSE @]
    /\ CloseAdvance
    /\ UNCHANGED <<chatCalls, panicked>>
    /\ CloseFrame

\* if c.ctx != nil { c.ctx.Uninit(); c.ctx.Free() }
CloseFreeContext ==
    /\ CloseAt("free context")
    /\ chat' = [chat EXCEPT !.ctx = "freed", !.ctxFrees = @ + 1]
    /\ CloseAdvance
    /\ UNCHANGED <<chatCalls, panicked>>
    /\ CloseFrame

\* close(c.messageQueue), which panics on a queue already closed
CloseQueue ==
    /\ CloseAt("close queue")
    /\ IF chat.queueClosed
       THEN panicked' = TRUE /\ UNCHANGED <<chat, closeCall>>
       ELSE /\ chat' = [chat EXCEPT !.queueClosed = TRUE]
            /\ CloseAdvance
            /\ UNCHANGED panicked
    /\ UNCHANGED chatCalls
    /\ CloseFrame

\* the capture device delivers 4 symbol periods of the incoming audio
ClosingCapture == ChatCapture(4 * symbolPeriod)

NextClosing ==
    \/ CloseCalled
    \/ CloseClearRunning
    \/ CloseStopCapture
    \/ CloseUninitCapture
    \/ CloseStopPlayback
    \/ CloseUninitPlayback
    \/ CloseFreeContext
    \/ CloseQueue
    \/ ClosingCapture

SpecClosing == InitClosing /\ [][NextClosing]_vars

----------------------------------------------------------------------------
(* Transmitter (fsk/realtime/transmitter.go; RealTimeTransmitter of         *)
(* fsk/fsk.go has the same code).  Transmit runs on the caller's goroutine, *)
(* onSendFrames on the thread of the playback device the call has started.  *)
(* t.mu is released in a step of its own, so the steps of the calls and of  *)
(* the callbacks interleave as the lock allows.                             *)

\* the arguments of Transmit: "h", and no data
TransmitData == { <<104>>, <<>> }

InitTransmit ==
    /\ \E m \in {New(ChatConfig)} :
          /\ config = m.config
          /\ symbolPeriod = m.symbolPeriod
          /\ frequencies = m.frequencies
          /\ phase = m.phase
    /\ constructed = TRUE
    /\ Fresh
    /\ NoTransport

\* an access to a field of the Transmitter t by function who of call g at a
\* line of transmitter.go, guarded when that function holds t.mu
Access(t, who, g, kind, field, line) ==
    [ by |-> who, kind |-> kind, field |-> field, line |-> line,
      guarded |-> t.mu = [by |-> who, call |-> g] ]

\* the call c after
\*   device, err := malgo.InitDevice(...)
\*   if err != nil { return fmt.Errorf("failed to initialize playback device: %v", err) }
\*   defer device.Uninit()
InitPlayback(c, ok) ==
    IF ok
    THEN [c EXCEPT !.pc = "start", !.device = "initialized",
                   !.deviceCalls = Append(@, "InitDevice")]
    ELSE [c EXCEPT !.pc = "idle", !.returned = "failed to initialize playback device"]

\* StartPlayback returning the error of Start with the device left initialized
StartPlayback_NoUninit(c, ok) ==
    IF ok
    THEN [c EXCEPT !.pc = "measure", !.device = "started",
                   !.deviceCalls = Append(@, "Start")]
    ELSE [c EXCEPT !.pc = "idle", !.returned = "failed to start playback device"]

\* the call c after
\*   err = device.Start()
\*   if err != nil { return fmt.Errorf("failed to start playback device: %v", err) }
\*   defer device.Stop()
\* the return running the deferred device.Uninit()
StartPlayback(c, ok) ==
    IF ok
    THEN [c EXCEPT !.pc = "measure", !.device = "started",
                   !.deviceCalls = Append(@, "Start")]
    ELSE [c EXCEPT !.pc = "idle", !.device = "uninit",
                   !.deviceCalls = Append(@, "Uninit"),
                   !.returned = "failed to start playback device"]

\* the call c after return nil: the deferred device.Stop(), then the deferred
\* device.Uninit()
ReturnNil(c) ==
    [c EXCEPT !.pc = "idle", !.device = "uninit",
              !.deviceCalls = @ \o <<"Stop", "Uninit">>,
              !.returned = "nil"]

\* TransmitterSendFrames moving the cursor by framecount whatever is left to play
TransmitterSendFrames_PastEnd(t, pOut, framecount) ==
    LET r == SendFramesLoop(t.signal, framecount, 0, t.sampleIndex, pOut)
    IN  [ transmitter |-> [t EXCEPT !.sampleIndex = @ + framecount], out |-> r.out ]

\* onSendFrames of Transmit, under t.mu: the Transmitter it leaves and the
\* device buffer it has written
TransmitterSendFrames(t, pOut, framecount) ==
    LET r == SendFramesLoop(t.signal, framecount, 0, t.sampleIndex, pOut)
    IN  [ transmitter |-> [t EXCEPT !.sampleIndex = r.playbackIndex], out |-> r.out ]

TransmitFrame ==
    UNCHANGED <<modemVars, encVars, decVars, redecoded, panicked,
                chat, chatCalls, heardFrames, lastCapture, multiVars, forwardVars, mix,
                closeCall>>

\* goroutine g calls t.Transmit(data):
\*   t.mu.Lock(); t.signal = t.modem.Encode(data); t.sampleIndex = 0
TransmitEncode(g, data) ==
    /\ transmitCall[g].pc = "idle"
    /\ transmitCall[1].calls + transmitCall[2].calls < MaxTransmits
    /\ transmitter.mu = Unlocked
    /\ \E r \in {Encode(transmitter.modem, data)} :
       \E t \in {[transmitter EXCEPT !.mu = [by |-> "Transmit", call |-> g],
                                     !.modem.phase = r.phase,
                                     !.signal = r.output,
                                     !.sampleIndex = 0]} :
          /\ transmitter' = t
          /\ transmitCall' = [transmitCall EXCEPT ![g] =
                 [NoTransmitCall EXCEPT
                     !.pc = "encoded", !.data = data,
                     !.calls = transmitCall[g].calls + 1,
                     !.accesses = transmitCall[g].accesses \cup
                         { Access(t, "Transmit", g, "write", "signal", 41),
                           Access(t, "Transmit", g, "write", "sampleIndex", 42) }]]
    /\ UNCHANGED pOutputSample
    /\ TransmitFrame

\* t.mu.Unlock()
TransmitUnlock(g) ==
    /\ transmitCall[g].pc = "encoded"
    /\ transmitter' = [transmitter EXCEPT !.mu = Unlocked]
    /\ transmitCall' = [transmitCall EXCEPT ![g].pc = "init"]
    /\ UNCHANGED pOutputSample
    /\ TransmitFrame

\* device, err := malgo.InitDevice(...); if err != nil { return fmt.Errorf(...) }
\* defer device.Uninit()
TransmitInitDevice(g, ok) ==
    /\ transmitCall[g].pc = "init"
    /\ transmitCall' = [transmitCall EXCEPT ![g] = InitPlayback(@, ok)]
    /\ UNCHANGED <<transmitter, pOutputSample>>
    /\ TransmitFrame

\* err = device.Start(); if err != nil { return fmt.Errorf(...) }, which runs
\* the deferred device.Uninit()
\* defer device.Stop()
TransmitStart(g, ok) ==
    /\ transmitCall[g].pc = "start"
    /\ transmitCall' = [transmitCall EXCEPT ![g] = StartPlayback(@, ok)]
    /\ UNCHANGED <<transmitter, pOutputSample>>
    /\ TransmitFrame

\* transmissionTime := float64(len(t.signal)) / float64(t.modem.Config().SampleRate),
\* kept in samples
TransmitMeasure(g) ==
    /\ transmitCall[g].pc = "measure"
    /\ transmitCall' = [transmitCall EXCEPT ![g] =
           [@ EXCEPT !.pc = "sleep",
                     !.transmissionTime = Len(transmitter.signal),
                     !.accesses = @ \cup
                         { Access(transmitter, "Transmit", g, "read", "signal", 92) }]]
    /\ UNCHANGED <<transmitter, pOutputSample>>
    /\ TransmitFrame

\* time.Sleep(...) is over; return nil, which runs the deferred device.Stop()
\* and then the deferred device.Uninit().  Stop returns once the device's
\* thread is outside the callback.
TransmitReturn(g) ==
    /\ transmitCall[g].pc = "sleep"
    /\ transmitCall[g].callback = "idle"
    /\ transmitCall' = [transmitCall EXCEPT ![g] = ReturnNil(@)]
    /\ UNCHANGED <<transmitter, pOutputSample>>
    /\ TransmitFrame

\* the device call g started calls onSendFrames for framecount frames:
\*   t.mu.Lock(); defer t.mu.Unlock(); the frame loop
TransmitPlayback(g, framecount) ==
    /\ transmitCall[g].device = "started"
    /\ transmitCall[g].callback = "idle"
    /\ transmitter.mu = Unlocked
    /\ \E r \in {TransmitterSendFrames(transmitter, Zeros(2 * framecount), framecount)} :
       \E t \in {[r.transmitter EXCEPT !.mu = [by |-> "onSendFrames", call |-> g]]} :
          /\ transmitter' = t
          /\ pOutputSample' = r.out
          /\ transmitCall' = [transmitCall EXCEPT ![g] =
                 [@ EXCEPT !.callback = "running",
                           !.accesses = @ \cup
                               { Access(t, "onSendFrames", g, "read", "sampleIndex", 57),
                                 Access(t, "onSendFrames", g, "read", "signal", 58),
                                 Access(t, "onSendFrames", g, "write", "sampleIndex", 66) }]]
    /\ TransmitFrame

\* onSendFrames returns: the deferred t.mu.Unlock()
TransmitPlaybackReturn(g) ==
    /\ transmitCall[g].callback = "running"
    /\ transmitter' = [transmitter EXCEPT !.mu = Unlocked]
    /\ transmitCall' = [transmitCall EXCEPT ![g].callback = "idle"]
    /\ UNCHANGED pOutputSample
    /\ TransmitFrame

NextTransmit ==
    \/ \E g \in TransmitCallers : \E data \in TransmitData : TransmitEncode(g, data)
    \/ \E g \in TransmitCallers : TransmitUnlock(g)
    \/ \E g \in TransmitCallers : \E ok \in BOOLEAN : TransmitInitDevice(g, ok)
    \/ \E g \in TransmitCallers : \E ok \in BOOLEAN : TransmitStart(g, ok)
    \/ \E g \in TransmitCallers : TransmitMeasure(g)
    \/ \E g \in TransmitCallers : TransmitReturn(g)
    \/ \E g \in TransmitCallers : \E framecount \in PlaybackSizes :
           TransmitPlayback(g, framecount)
    \/ \E g \in TransmitCallers : TransmitPlaybackReturn(g)

SpecTransmit == InitTransmit /\ [][NextTransmit]_vars

----------------------------------------------------------------------------
(* A MultiChannelChat as a state machine: its methods called by concurrent *)
(* goroutines, and the forwarding goroutines JoinChannel spawns            *)

\* the channels of the model
ChannelConfigs ==
    { [ID |-> 1, BaseFreq |-> 4000, FreqSpacing |-> 4000],
      [ID |-> 2, BaseFreq |-> 8000, FreqSpacing |-> 4000] }

ChannelIDs == {cc.ID : cc \in ChannelConfigs}

\* order and baudRate passed to JoinChannel
JoinOrders == {2}
JoinBaudRates == {8000}

\* the texts sent: "a"
McTexts == {<<97>>}

\* a MultiChannelChat just created
InitMulti ==
    /\ \E m \in {New(ChatConfig)} :
          /\ config = m.config
          /\ symbolPeriod = m.symbolPeriod
          /\ frequencies = m.frequencies
          /\ phase = m.phase
    /\ constructed = TRUE
    /\ Fresh
    /\ NoTransport

\* a method may be called
MayCall ==
    /\ ~panicked
    /\ mcCalls < MaxCalls

\* what no MultiChannelChat step changes
McFrame == UNCHANGED <<modemVars, encVars, decVars, redecoded, chatVars>>

\* some goroutine calls mc.JoinChannel(channelConfig, order, baudRate)
McJoin(channelConfig, order, baudRate, outcome) ==
    /\ MayCall
    /\ \E r \in {JoinChannel(mc, sessions, channelConfig, order, baudRate, outcome)} :
          /\ mc' = r.mc
          /\ sessions' = r.sessions
          /\ listeners' = IF r.spawned # 0 THEN listeners \cup {r.spawned} ELSE listeners
          /\ mcLast' = [NoEvent EXCEPT !.event = "join",
                                       !.channelID = channelConfig.ID,
                                       !.chatSession = r.spawned, !.err = r.err]
    /\ mcCalls' = mcCalls + 1
    /\ UNCHANGED <<callers, panicked>>
    /\ sessionChannel' = IF Len(sessions') > Len(sessions)
                         THEN Append(sessionChannel, channelConfig.ID)
                         ELSE sessionChannel
    /\ UNCHANGED <<accepted, callbackLog, standaloneVars>>
    /\ McFrame

\* some goroutine calls mc.LeaveChannel(channelID)
McLeave(channelID) ==
    /\ MayCall
    /\ \E r \in {LeaveChannel(mc, sessions, channelID)} :
          /\ mc' = r.mc
          /\ sessions' = r.sessions
          /\ panicked' = r.panic
          /\ mcLast' = [NoEvent EXCEPT !.event = "leave",
                                       !.channelID = channelID,
                                       !.chatSession = Lookup(mc, channelID).chatSession,
                                       !.err = r.err]
    /\ mcCalls' = mcCalls + 1
    /\ UNCHANGED <<listeners, callers>>
    /\ UNCHANGED <<forwardVars, standaloneVars>>
    /\ McFrame

\* goroutine t calls mc.SendMessage(channelID, message) and reads the registry
McSend(t, channelID, message) ==
    /\ MayCall
    /\ callers[t].pc = "idle"
    /\ callers' = [callers EXCEPT ![t] =
                      [Idle EXCEPT !.pc = "deliver", !.op = "send",
                                   !.channelID = channelID, !.message = message,
                                   !.found = Lookup(mc, channelID)]]
    /\ mcLast' = [NoEvent EXCEPT !.event = "lookup", !.caller = t, !.op = "send",
                                 !.channelID = channelID,
                                 !.chatSession = Lookup(mc, channelID).chatSession]
    /\ mcCalls' = mcCalls + 1
    /\ UNCHANGED <<mc, sessions, listeners, panicked>>
    /\ UNCHANGED <<forwardVars, standaloneVars>>
    /\ McFrame

\* goroutine t, in mc.SendMessage after the lookup: the error return or the
\* send on the session found, and the return to the caller or to the loop of
\* BroadcastMessage
McDeliver(t) ==
    /\ ~panicked
    /\ callers[t].pc = "deliver"
    /\ LET c == callers[t]
           r == Deliver(mc, sessions, c.channelID, c.message, c.found)
       IN  /\ sessions' = r.sessions
           /\ mcLast' = [NoEvent EXCEPT
                            !.event = "deliver", !.caller = t, !.op = c.op,
                            !.channelID = c.channelID,
                            !.chatSession = c.found.chatSession,
                            !.err = r.err,
                            !.member = Lookup(mc, c.channelID) = c.found]
           /\ callers' = [callers EXCEPT ![t] =
                 IF c.op = "send" THEN Idle
                 ELSE [c EXCEPT !.pc = "loop", !.i = @ + 1,
                                !.lastErr = NextLastErr(@, r.err),
                                !.attempts = Append(@, <<c.channelID, r.err>>)]]
    /\ UNCHANGED <<mc, listeners, mcCalls, panicked>>
    /\ UNCHANGED <<forwardVars, standaloneVars>>
    /\ McFrame

\* goroutine t calls mc.BroadcastMessage(message) and copies mc.activeChans
McBroadcast(t, message) ==
    /\ MayCall
    /\ callers[t].pc = "idle"
    /\ callers' = [callers EXCEPT ![t] =
                      [Idle EXCEPT !.pc = "loop", !.op = "broadcast",
                                   !.message = message,
                                   !.activeChannels = mc.activeChans]]
    /\ mcLast' = [NoEvent EXCEPT !.event = "snapshot", !.caller = t,
                                 !.op = "broadcast",
                                 !.activeChannels = mc.activeChans]
    /\ mcCalls' = mcCalls + 1
    /\ UNCHANGED <<mc, sessions, listeners, panicked>>
    /\ UNCHANGED <<forwardVars, standaloneVars>>
    /\ McFrame

\* goroutine t, in the loop of BroadcastMessage: the next mc.SendMessage call
\* with its registry read, or the return of lastErr
McBroadcastLoop(t) ==
    /\ ~panicked
    /\ callers[t].pc = "loop"
    /\ LET c == callers[t]
       IN  IF c.i < Len(c.activeChannels)
           THEN /\ callers' = [callers EXCEPT ![t] =
                      [c EXCEPT !.pc = "deliver",
                                !.channelID = At(c.activeChannels, c.i),
                                !.found = Lookup(mc, At(c.activeChannels, c.i))]]
                /\ UNCHANGED mcLast
           ELSE /\ callers' = [callers EXCEPT ![t] = Idle]
                /\ mcLast' = [NoEvent EXCEPT
                                 !.event = "broadcast returns", !.caller = t,
                                 !.op = "broadcast", !.err = c.lastErr,
                                 !.activeChannels = c.activeChannels,
                                 !.attempts = c.attempts]
    /\ UNCHANGED <<mc, sessions, listeners, mcCalls, panicked>>
    /\ UNCHANGED <<forwardVars, standaloneVars>>
    /\ McFrame

\* some goroutine calls mc.Close()
McClose ==
    /\ MayCall
    /\ \E r \in {CloseChat(mc, sessions)} :
          /\ mc' = r.mc
          /\ sessions' = r.sessions
          /\ panicked' = r.panic
    /\ mcLast' = [NoEvent EXCEPT !.event = "close"]
    /\ mcCalls' = mcCalls + 1
    /\ UNCHANGED <<listeners, callers>>
    /\ UNCHANGED <<forwardVars, standaloneVars>>
    /\ McFrame

\* the goroutine JoinChannel spawned for session h takes the next message
\* from the session's queue, or ends when the queue is closed and empty
Listener(h) ==
    /\ ~panicked
    /\ h \in listeners
    /\ IF Len(sessions[h].messageQueue) > 0
       THEN /\ sessions' = [sessions EXCEPT ![h].messageQueue = Tail(@)]
            /\ callbackLog' = msgCallback(callbackLog, sessionChannel[h],
                                          Head(sessions[h].messageQueue))
            /\ UNCHANGED listeners
       ELSE /\ sessions[h].queueClosed
            /\ listeners' = listeners \ {h}
            /\ UNCHANGED <<sessions, callbackLog>>
    /\ UNCHANGED <<mc, callers, mcLast, mcCalls, panicked>>
    /\ UNCHANGED <<sessionChannel, accepted, standaloneVars>>
    /\ McFrame

NextMulti ==
    \/ \E channelConfig \in ChannelConfigs, order \in JoinOrders,
          baudRate \in JoinBaudRates, outcome \in JoinOutcomes :
          McJoin(channelConfig, order, baudRate, outcome)
    \/ \E channelID \in ChannelIDs : McLeave(channelID)
    \/ \E t \in Callers, channelID \in ChannelIDs, message \in McTexts :
          McSend(t, channelID, message)
    \/ \E t \in Callers : McDeliver(t)
    \/ \E t \in Callers, message \in McTexts : McBroadcast(t, message)
    \/ \E t \in Callers : McBroadcastLoop(t)
    \/ McClose
    \/ \E h \in listeners : Listener(h)

SpecMulti == InitMulti /\ [][NextMulti]_vars

----------------------------------------------------------------------------
(* JoinChannel alone, the audio layer failing at any step of NewChatSession *)
(* and of ChatSession.Start                                                 *)

\* the channel joined
JoinConfig == CHOOSE cc \in ChannelConfigs : cc.ID = 1

\* how the audio layer answers a JoinChannel call
JoinAnswers == {"context fails"} \cup StartOutcomes

JoinAttempt ==
    \E order \in JoinOrders : \E baudRate \in JoinBaudRates :
        \E outcome \in JoinAnswers : McJoin(JoinConfig, order, baudRate, outcome)

SpecJoin == InitMulti /\ [][JoinAttempt]_vars

----------------------------------------------------------------------------
(* The inbound side of a MultiChannelChat: the capture devices of its     *)
(* sessions deliver audio, the capture callbacks queue what they decode,  *)
(* and the listeners hand it to the callback, while channels are joined   *)
(* and left                                                                *)

\* the texts the remote stations send: "h", "y"
HeardTexts == {<<104>>, <<121>>}

\* the device buffers the capture callbacks are given: the frames of a text
\* sent on channel 1, 4 symbol periods each
HeardBuffers ==
    LET cc == CHOOSE x \in ChannelConfigs : x.ID = 1
        order == CHOOSE x \in JoinOrders : TRUE
        baudRate == CHOOSE x \in JoinBaudRates : TRUE
        m == New(Cfg(cc.BaseFreq, cc.FreqSpacing, order, baudRate, JoinSampleRate))
    IN  {FramesOf(Encode(m, text).output) : text \in HeardTexts}

\* the capture device of session h calls onRecvFrames with pInputSamples
McCapture(h, pInputSamples) ==
    /\ ~panicked
    /\ Len(accepted) < MaxAccepted
    /\ sessions[h].captureDevice = "started"
    /\ \E r \in {onRecvFrames(sessions[h], pInputSamples)} :
          /\ sessions' = [sessions EXCEPT ![h] = r.chat]
          /\ panicked' = r.panic
          /\ accepted' = IF r.sent
                         THEN Append(accepted, [session |-> h, message |-> r.decoded])
                         ELSE accepted
    /\ UNCHANGED <<mc, listeners, callers, mcLast, mcCalls>>
    /\ UNCHANGED <<sessionChannel, callbackLog, standaloneVars>>
    /\ McFrame

\* the membership calls made while audio comes in
ForwardJoin(channelConfig, order, baudRate, outcome) ==
    /\ mcCalls < MaxMembership
    /\ McJoin(channelConfig, order, baudRate, outcome)

ForwardLeave(channelID) ==
    /\ mcCalls < MaxMembership
    /\ McLeave(channelID)

ForwardClose ==
    /\ mcCalls < MaxMembership
    /\ McClose

ForwardCapture ==
    \E h \in DOMAIN sessions, pInputSamples \in HeardBuffers :
        McCapture(h, pInputSamples)

ForwardListener == \E h \in listeners : Listener(h)

NextForward ==
    \/ \E channelConfig \in ChannelConfigs, order \in JoinOrders,
          baudRate \in JoinBaudRates, outcome \in JoinOutcomes :
          ForwardJoin(channelConfig, order, baudRate, outcome)
    \/ \E channelID \in ChannelIDs : ForwardLeave(channelID)
    \/ ForwardClose
    \/ ForwardCapture
    \/ ForwardListener

SpecForward == InitMulti /\ [][NextForward]_vars

----------------------------------------------------------------------------
(* Vocabulary of the properties *)

\* ceil(a / b) for a >= 0, b >= 1
CeilDiv(a, b) == IF a % b = 0 THEN a \div b ELSE (a \div b) + 1

\* bit i of the data, counted from the most significant bit of the first
\* byte; 0 past the end of the data
DataBit(data, i) ==
    IF i < 8 * Len(data) THEN Bit(At(data, i \div 8), 7 - (i % 8)) ELSE 0

\* the value of Order consecutive data bits from bit k*Order on, first bit
\* most significant
SymbolValue(data, k, order) ==
    LET F[j \in 0..order] ==
            IF j = order THEN 0
            ELSE DataBit(data, k * order + j) * 2^(order - 1 - j) + F[j + 1]
    IN  F[0]

\* the phase p after n increments of inc
RECURSIVE PhaseAfterSamples(_, _, _)
PhaseAfterSamples(p, inc, n) ==
    IF n = 0 THEN p
    ELSE IF p + inc >= TwoPi
         THEN PhaseAfterSamples(p + inc - TwoPi, inc, n - 1)
         ELSE PhaseAfterSamples(p + inc, inc, n - 1)

\* the phase p after count symbols of period increments each
RECURSIVE PhaseAfterSymbols(_, _, _, _)
PhaseAfterSymbols(p, inc, period, count) ==
    IF count = 0 THEN p
    ELSE PhaseAfterSymbols(PhaseAfterSamples(p, inc, period), inc, period, count - 1)

\* the phase increment of table entry s (0-based)
IncOf(s) == PhaseIncrement(At(frequencies, s), config.SampleRate)

\* the detected symbols are the transmitted ones
IdealDetection == decSymbols = encSymbols

\* the last Decode call was given the unmodified buffer of the last Encode call
DecodedTheEncoding == decCalled /\ nEnc > 0 /\ decIn = encOut

----------------------------------------------------------------------------
(* C1 *)

\* C1: round trip.  When Order >= 1, SymbolPeriod >= 1, the bit length of D is
\* a multiple of Order, the buffer Encode(D) returned is passed to Decode
\* unmodified and every window is detected as the frequency transmitted in
\* it, Decode returns D.
C1_RoundTrip ==
    ( /\ DecodedTheEncoding
      /\ config.Order >= 1 /\ symbolPeriod >= 1
      /\ (8 * Len(encData)) % config.Order = 0
      /\ IdealDetection )
    => decOut = encData

\* a 3-byte message sent as 8 symbols of 3 bits has made the round trip
C1_Witness ==
    /\ DecodedTheEncoding
    /\ config.Order = 3 /\ Len(encData) = 3 /\ symbolPeriod >= 1
    /\ IdealDetection
    /\ decOut = encData

----------------------------------------------------------------------------
(* C2 *)

\* C2: Encode(D) returns exactly ceil(8*|D| / Order) * SymbolPeriod samples
\* (0 samples for empty D); 11 bytes at Order 2 and SymbolPeriod 480 are
\* 44 symbols and 21120 samples.
C2_EncodeLength ==
    /\ nEnc > 0 =>
          /\ Len(encOut) = CeilDiv(8 * Len(encData), config.Order) * symbolPeriod
          /\ Len(encSymbols) = CeilDiv(8 * Len(encData), config.Order)
          /\ (encData = <<>> => encOut = <<>>)
    /\ EncodeSymbolCount(8 * 11, 2) = 44
    /\ EncodeSymbolCount(8 * 11, 2) * New(Cfg(1000, 200, 2, 100, 48000)).symbolPeriod = 21120

\* an encoding whose last symbol is a short group
C2_Witness ==
    /\ nEnc > 0 /\ encData # <<>>
    /\ (8 * Len(encData)) % config.Order # 0
    /\ symbolPeriod > 1
    /\ Len(encOut) = ((8 * Len(encData)) \div config.Order + 1) * symbolPeriod

----------------------------------------------------------------------------
(* C3 *)

\* the samples of window k of the last encoding, from sample n on, are those
\* of table entry s played from phase p
RECURSIVE WindowPlays(_, _, _, _)
WindowPlays(k, s, n, p) ==
    IF n = symbolPeriod THEN TRUE
    ELSE /\ At(encOut, k * symbolPeriod + n) = EncodeSample(p)
         /\ WindowPlays(k, s, n + 1, AdvancePhase(p, IncOf(s)))

\* number of j < k with symbols[j] = s (0-based)
OccurrencesBefore(symbols, k, s) == Cardinality({j \in 1..k : symbols[j] = s})

\* C3: the k-th symbol Encode transmits is the value of data bits
\* k*Order .. k*Order+Order-1, MSB-first within each byte, the first bit most
\* significant, bits past the end of the data counting as 0; it lies in
\* [0, 2^Order) and is the index of the frequency-table entry whose tone (and
\* phase accumulator) fills window k.
C3_SymbolMapping ==
    nEnc > 0 =>
        \A k \in 0..(Len(encSymbols) - 1) :
            LET s == At(encSymbols, k)
            IN  /\ s = SymbolValue(encData, k, config.Order)
                /\ s >= 0 /\ s < 2^config.Order
                /\ WindowPlays(k, s, 0,
                       PhaseAfterSymbols(At(encPhase0, s), IncOf(s), symbolPeriod,
                                         OccurrencesBefore(encSymbols, k, s)))

\* an encoding whose last symbol is a zero-padded short group with a data
\* bit set, and whose symbols are not all the same
C3_Witness ==
    /\ nEnc > 0 /\ symbolPeriod >= 1
    /\ (8 * Len(encData)) % config.Order # 0
    /\ Len(encSymbols) >= 2
    /\ At(encSymbols, Len(encSymbols) - 1) # 0
    /\ At(encSymbols, 0) # At(encSymbols, 1)

----------------------------------------------------------------------------
(* C4 *)

\* round(a / b), halves away from zero, for a >= 0, b >= 1
RoundDiv(a, b) == (2 * a + b) \div (2 * b)

\* the fractional part of SampleRate / SymbolRate is 0.5 or more
FractionHalfOrMore == 2 * (config.SampleRate % config.BaudRate) >= config.BaudRate

\* C4 as stated: SymbolPeriod equals round(SampleRate / SymbolRate), the
\* nearest integer, also when the fractional part of the ratio is 0.5 or more.
C4_Rounds ==
    constructed => symbolPeriod = RoundDiv(config.SampleRate, config.BaudRate)

\* C4 as amended: SymbolPeriod equals SampleRate / SymbolRate truncated
\* toward zero, for every Configuration with SymbolRate > 0; it is the
\* nearest integer exactly when the fractional part of the ratio is below 0.5.
C4_Truncates ==
    constructed =>
        /\ symbolPeriod * config.BaudRate <= config.SampleRate
        /\ config.SampleRate < (symbolPeriod + 1) * config.BaudRate
        /\ (symbolPeriod = RoundDiv(config.SampleRate, config.BaudRate))
               <=> ~FractionHalfOrMore
        /\ New(Cfg(1000, 200, 2, 100, 48000)).symbolPeriod = 480

\* a Modem built for a ratio whose fractional part is 0.5 or more
C4_Witness ==
    /\ constructed
    /\ FractionHalfOrMore
    /\ symbolPeriod >= 1
    /\ symbolPeriod = RoundDiv(config.SampleRate, config.BaudRate) - 1

----------------------------------------------------------------------------
(* C5 *)

\* C5: for every Order in [1,4] the frequency table has exactly 2^Order
\* entries and as many phase accumulators, all initially 0, and entry i is
\* BaseFrequency + i*FrequencySpacing for every i in [0, 2^Order).
C5_TableSizing ==
    (constructed /\ config.Order \in 1..4) =>
        /\ Len(frequencies) = 2^config.Order
        /\ Len(phase) = 2^config.Order
        /\ \A i \in 0..(2^config.Order - 1) :
              /\ At(frequencies, i) = config.BaseFreq + i * config.FreqSpacing
              /\ At(phase, i) = 0

\* a Modem of order 4 with its 16 tones, the last at Base + 15*Spacing
C5_Witness ==
    /\ constructed
    /\ config.Order = 4
    /\ Len(frequencies) = 16
    /\ At(frequencies, 15) = config.BaseFreq + 15 * config.FreqSpacing
    /\ config.FreqSpacing > 1

----------------------------------------------------------------------------
(* C6 *)

\* C6: Decode processes floor(len(samples) / SymbolPeriod) non-overlapping
\* windows from sample 0 on; the trailing len(samples) mod SymbolPeriod
\* samples do not influence the result; with no whole window (an empty
\* buffer included) it returns an empty result and no error.
C6_Windows ==
    decCalled =>
        LET n == Len(decIn) \div symbolPeriod
            whole == Decode(Modem, SubSeq(decIn, 1, n * symbolPeriod))
        IN  /\ ~panicked
            /\ Len(decWindows) = n
            /\ Len(decSymbols) = n
            /\ \A k \in 0..(n - 1) :
                  At(decWindows, k) =
                      [start |-> k * symbolPeriod, end |-> (k + 1) * symbolPeriod]
            /\ decOut = whole.output
            /\ decSymbols = whole.symbols
            /\ (n = 0 => decOut = <<>>)

\* a decoded buffer of at least one window followed by a partial one
C6_Witness ==
    /\ decCalled
    /\ symbolPeriod > 1
    /\ Len(decIn) > symbolPeriod
    /\ Len(decIn) % symbolPeriod # 0
    /\ decIn[Len(decIn)] # 0
    /\ decOut # <<>>

----------------------------------------------------------------------------
(* C7 *)

\* C7: Decode reassembles the detected symbols MSB-first into exactly
\* ceil(symbolCount*Order/8) bytes, trimming nothing; so when the bit length
\* of D is not a multiple of Order, Decode(Encode(D)) under ideal detection
\* is not D: it is D followed by the padding bits in further output.
C7_Reassembly ==
    /\ decCalled =>
          LET total == Len(decSymbols) * config.Order
          IN  /\ Len(decOut) = CeilDiv(total, 8)
              /\ \A i \in 0..(8 * Len(decOut) - 1) :
                    DataBit(decOut, i) =
                        IF i < total
                        THEN Bit(At(decSymbols, i \div config.Order),
                                 config.Order - 1 - (i % config.Order))
                        ELSE 0
    /\ ( /\ DecodedTheEncoding
         /\ symbolPeriod >= 1
         /\ (8 * Len(encData)) % config.Order # 0
         /\ IdealDetection )
       => /\ decOut # encData
          /\ Len(decOut) = CeilDiv(CeilDiv(8 * Len(encData), config.Order) * config.Order, 8)
          /\ Len(decOut) > Len(encData)
          /\ SubSeq(decOut, 1, Len(encData)) = encData

\* one byte sent as 3 symbols of 3 bits comes back as two bytes
C7_Witness ==
    /\ DecodedTheEncoding
    /\ config.Order = 3 /\ Len(encData) = 1 /\ symbolPeriod >= 1
    /\ IdealDetection
    /\ decOut = encData \o <<0>>

----------------------------------------------------------------------------
(* C8 *)

\* C8: Decode has no hidden state: a Decode call on the buffer of the Decode
\* call before it returns the same output, whatever Encode calls were made
\* in between, and a Decode call leaves the configuration, the symbol
\* period, the frequency table and the phase accumulators unchanged.
C8_DecodeDeterminism ==
    [][ /\ (decCalled /\ decCalled' /\ decIn' = decIn)
            => (decOut' = decOut /\ decSymbols' = decSymbols)
        /\ (decVars' # decVars \/ redecoded' \/ panicked' # panicked)
            => UNCHANGED <<config, symbolPeriod, frequencies, phase>> ]_vars

\* a buffer decoded again after an Encode call that moved a phase
\* accumulator: the buffer was built from an encoding that a later Encode
\* call has replaced, and the call just made repeats it
C8_Witness ==
    /\ redecoded
    /\ decOut # <<>>
    /\ nEnc >= 1
    /\ decIn \notin {base \o pad : base \in {encOut} \cup
                                    {Zeros(k * symbolPeriod) : k \in 1..MaxSilence},
                                  pad \in Pads}
    /\ \E i \in DOMAIN phase : phase[i] # 0

----------------------------------------------------------------------------
(* C9 *)

\* the correlation magnitudes (numerators over the common window length) of
\* window k of the last decoded buffer, per table entry
Magnitudes(k) ==
    LET w == Slice(decIn, k * symbolPeriod, (k + 1) * symbolPeriod)
    IN  [i \in 1..Len(frequencies) |-> correlateWithFrequency(Modem, w, frequencies[i]).num]

Silent(k) ==
    \A n \in (k * symbolPeriod + 1)..((k + 1) * symbolPeriod) : decIn[n] = 0

\* C9: in each window the detected symbol is the lowest table index whose
\* correlation magnitude is the maximum over all candidates; a window of
\* equal correlations, such as silence, is detected as symbol 0.
C9_TieBreak ==
    decCalled =>
        \A k \in 0..(Len(decSymbols) - 1) :
            LET mag == Magnitudes(k)
                d   == At(decSymbols, k)
            IN  /\ \A i \in 0..(Len(frequencies) - 1) :
                      /\ At(mag, i) <= At(mag, d)
                      /\ i < d => At(mag, i) < At(mag, d)
                /\ (\A i \in 0..(Len(frequencies) - 1) : At(mag, i) = At(mag, 0)) => d = 0
                /\ Silent(k) => d = 0

\* a window with a tone in it in which two table entries tie for the maximum
C9_Witness ==
    /\ decCalled
    /\ \E k \in 0..(Len(decSymbols) - 1) :
          LET mag == Magnitudes(k)
              d   == At(decSymbols, k)
          IN  /\ ~Silent(k)
              /\ At(mag, d) > 0
              /\ \E j \in (d + 1)..(Len(frequencies) - 1) : At(mag, j) = At(mag, d)

----------------------------------------------------------------------------
(* C10 *)

----------------------------------------------------------------------------
(* C11 *)

\* C11: the samples an Encode call returns depend only on the data and the
\* Configuration: they are the samples a Modem just constructed from the same
\* Configuration returns for the same data, whatever calls were made before.
C11_EncodeStateless ==
    nEnc > 0 => encOut = Encode(New(config), encData).output

----------------------------------------------------------------------------
(* C12 *)

\* a capture callback has just run
CaptureRan == heardFrames' # heardFrames

\* C12: the inbound queue never holds more than 10 messages; a capture
\* callback that decodes a message while 10 are pending discards that message
\* and leaves the 10 queued messages unchanged and in order, one that decodes
\* a message while fewer are pending appends it, and the callback completes:
\* it returns, with the queue full as with room in it.
C12_BackPressure ==
    /\ [](Len(chat.messageQueue) <= QueueCapacity)
    /\ [][ CaptureRan =>
             /\ ~panicked'
             /\ lastCapture'.decoded # <<>> =>
                   IF Len(chat.messageQueue) = QueueCapacity
                   THEN /\ chat'.messageQueue = chat.messageQueue
                        /\ ~lastCapture'.sent
                   ELSE /\ chat'.messageQueue =
                              Append(chat.messageQueue, lastCapture'.decoded)
                        /\ lastCapture'.sent
             /\ lastCapture'.decoded = <<>> =>
                   chat'.messageQueue = chat.messageQueue ]_vars

\* ten different messages pending, and the eleventh just decoded and discarded
C12_Witness ==
    /\ Len(chat.messageQueue) = QueueCapacity
    /\ lastCapture.full
    /\ lastCapture.decoded # <<>>
    /\ ~lastCapture.sent
    /\ \A i, j \in 1..QueueCapacity :
          i # j => chat.messageQueue[i] # chat.messageQueue[j]
    /\ \A i \in 1..QueueCapacity : chat.messageQueue[i] # lastCapture.decoded

----------------------------------------------------------------------------
(* C13 *)

\* the samples of the outbound buffer still to be played
Pending(c) == SubSeq(c.playbackSignal, c.playbackIndex + 1, Len(c.playbackSignal))

\* C13: SendMessage replaces the whole outbound buffer by the encoding of the
\* new message and resets the play cursor to 0, in one step; every other step
\* leaves the buffer alone and only moves the cursor forward, and a playback
\* callback writes to the device the samples of the current buffer from the
\* cursor on, then silence.  So what is pending is always the rest of the
\* last message sent, and samples cut off by a send are never played.
C13_LastWriteWins ==
    [][ IF chatCalls'.send # chatCalls.send
        THEN /\ chat'.playbackSignal = Encode(chat.modem, chatCalls'.message).output
             /\ chat'.playbackIndex = 0
             /\ Pending(chat') = chat'.playbackSignal
        ELSE /\ chat'.playbackSignal = chat.playbackSignal
             /\ chat'.playbackIndex >= chat.playbackIndex
             /\ chat'.playbackIndex <= Len(chat.playbackSignal)
             /\ chat'.playbackIndex > chat.playbackIndex =>
                   LET played == SubSeq(chat.playbackSignal, chat.playbackIndex + 1,
                                        chat'.playbackIndex)
                   IN  /\ SubSeq(pOutputSample', 1, 2 * Len(played)) = FramesOf(played)
                       /\ \A n \in (2 * Len(played) + 1)..Len(pOutputSample') :
                              pOutputSample'[n] = 0 ]_vars

\* a message sent while samples of the message before it were still to be
\* played, and now itself partly played
C13_Witness ==
    /\ chatCalls.send = 2
    /\ chatCalls.truncated > 0
    /\ chat.playbackIndex > 0
    /\ chat.playbackIndex < Len(chat.playbackSignal)
    /\ \E n \in 1..Len(pOutputSample) : pOutputSample[n] # 0

----------------------------------------------------------------------------
(* C14 *)
\* A JoinChannel call that returns an error leaves the channel map and the
\* active-channel list as they were and spawns no listener; it returns an
\* error exactly when the session could not be created or started, and a call
\* that returns nil has registered the started session it created under the
\* channel's ID, appended the ID to the list and spawned that session's
\* listener.
JoinRan == mcCalls' # mcCalls /\ mcLast'.event = "join"

C14_NoPartialJoin ==
    [][JoinRan =>
         LET h == Len(sessions) + 1
             id == mcLast'.channelID
         IN  /\ mcLast'.err # 0 <=>
                   (sessions' = sessions \/ ~sessions'[Len(sessions')].running)
             /\ mcLast'.err # 0 => mc' = mc /\ listeners' = listeners
             /\ mcLast'.err = 0 =>
                   /\ Len(sessions') = h
                   /\ mc'.channels = MapPut(mc.channels, id, h)
                   /\ mc'.activeChans = Append(mc.activeChans, id)
                   /\ listeners' = listeners \cup {h}]_vars

\* a join has just failed at the start of the playback device, the capture
\* device of its session running, while another channel was active and
\* being listened to
C14_Witness ==
    /\ mcLast.event = "join"
    /\ mcLast.err # 0
    /\ mc.activeChans # <<>>
    /\ mcLast.err \notin DOMAIN mc.channels
    /\ listeners # {}
    /\ Len(sessions) > 1
    /\ sessions[Len(sessions)].captureDevice = "started"
    /\ ~sessions[Len(sessions)].running

----------------------------------------------------------------------------
(* C15 *)
\* LeaveChannel(id) on an active channel closes that channel's session,
\* removes id from the channel map and from the active-channel list, and
\* leaves every other channel untouched; on a channel that is not active it
\* returns an error and changes nothing.
LeaveRan == mcCalls' # mcCalls /\ mcLast'.event = "leave"

\* the entries of list other than id, in order
RECURSIVE Without(_, _)
Without(list, id) ==
    IF list = <<>> THEN <<>>
    ELSE IF Head(list) = id THEN Without(Tail(list), id)
    ELSE <<Head(list)>> \o Without(Tail(list), id)

C15_LeaveRemoves ==
    [][LeaveRan =>
         LET id == mcLast'.channelID
         IN  IF id \in DOMAIN mc.channels
             THEN LET h == mc.channels[id]
                  IN  /\ mcLast'.err = 0
                      /\ sessions'[h] = Close(sessions[h]).chat
                      /\ sessions'[h].queueClosed
                      /\ \A x \in DOMAIN sessions \ {h} : sessions'[x] = sessions[x]
                      /\ DOMAIN sessions' = DOMAIN sessions
                      /\ mc'.channels = MapDelete(mc.channels, id)
                      /\ id \notin DOMAIN mc'.channels
                      /\ \A i \in 1..Len(mc'.activeChans) : mc'.activeChans[i] # id
                      /\ mc'.activeChans = Without(mc.activeChans, id)
             ELSE /\ mcLast'.err # 0
                  /\ mc' = mc
                  /\ sessions' = sessions
                  /\ listeners' = listeners]_vars

----------------------------------------------------------------------------
(* C16 *)
\* MultiChannelChat.SendMessage(channelID, text) finds the channel active
\* exactly when channelID is a key of the channel map as it reads it.  If it
\* is not, the call returns an error and no session's outbound buffer
\* changes; if it is, the call returns nil and has handed the encoding of
\* exactly "<username>: <text>" to that channel's session, every other
\* session left as it was.
LookupRan(t) == callers[t].pc # "deliver" /\ callers'[t].pc = "deliver"

DeliverRan(t) == callers[t].pc = "deliver" /\ callers'[t].pc # "deliver"

C16_SendNeedsActiveChannel ==
    [][\A t \in Callers :
         /\ LookupRan(t) =>
               LET c == callers'[t]
               IN  /\ c.found.exists <=> c.channelID \in DOMAIN mc.channels
                   /\ c.found.exists => c.found.chatSession = mc.channels[c.channelID]
                   /\ sessions' = sessions
         /\ DeliverRan(t) =>
               LET c == callers[t]
                   h == c.found.chatSession
               IN  IF ~c.found.exists
                   THEN /\ mcLast'.err # 0
                        /\ sessions' = sessions
                   ELSE /\ mcLast'.err = 0
                        /\ sessions'[h].playbackSignal =
                              Encode(sessions[h].modem,
                                     mc.username \o <<58, 32>> \o c.message).output
                        /\ sessions'[h].playbackIndex = 0
                        /\ \A x \in DOMAIN sessions \ {h} : sessions'[x] = sessions[x]
                        /\ DOMAIN sessions' = DOMAIN sessions]_vars

\* SendMessage has just returned nil for one of two active channels: that
\* channel's session holds a signal to play, the other session holds none
C16_Witness ==
    /\ mcLast.event = "deliver"
    /\ mcLast.op = "send"
    /\ mcLast.err = 0
    /\ Cardinality(DOMAIN mc.channels) = 2
    /\ mcLast.channelID \in DOMAIN mc.channels
    /\ sessions[mcLast.chatSession].playbackSignal # <<>>
    /\ \E id \in DOMAIN mc.channels :
          /\ id # mcLast.channelID
          /\ sessions[mc.channels[id]].playbackSignal = <<>>

----------------------------------------------------------------------------
(* C17 *)
\* BroadcastMessage copies the active-channel list as it is when the call
\* reads it, attempts one send per entry of the copy in list order, going on
\* after an attempt that fails, and returns the error of the last attempt
\* that failed, or nil when none failed or the copy is empty.
SnapshotRan(t) == callers[t].pc = "idle" /\ callers'[t].op = "broadcast"

AttemptRan(t) == DeliverRan(t) /\ callers[t].op = "broadcast"

BroadcastReturns(t) == callers[t].op = "broadcast" /\ callers'[t].pc = "idle"

\* the error of the last failing attempt in attempts, 0 when there is none
LastFailure(attempts) ==
    LET failing == {i \in 1..Len(attempts) : attempts[i][2] # 0}
    IN  IF failing = {} THEN 0
        ELSE attempts[CHOOSE i \in failing : \A j \in failing : j <= i][2]

C17_BroadcastAll ==
    [][\A t \in Callers :
         /\ SnapshotRan(t) =>
               /\ callers'[t].activeChannels = mc.activeChans
               /\ callers'[t].attempts = <<>>
         /\ AttemptRan(t) =>
               LET c == callers[t]
                   n == Len(c.attempts) + 1
               IN  /\ n <= Len(c.activeChannels)
                   /\ callers'[t].activeChannels = c.activeChannels
                   /\ callers'[t].attempts =
                         Append(c.attempts, <<c.activeChannels[n], mcLast'.err>>)
                   /\ mcLast'.channelID = c.activeChannels[n]
         /\ BroadcastReturns(t) =>
               LET c == callers[t]
               IN  /\ Len(c.attempts) = Len(c.activeChannels)
                   /\ \A i \in 1..Len(c.attempts) :
                         c.attempts[i][1] = c.activeChannels[i]
                   /\ mcLast'.event = "broadcast returns"
                   /\ mcLast'.err = LastFailure(c.attempts)]_vars

\* a broadcast over two channels has returned the error of the first, which
\* was left after the copy was taken, having sent on the second after it
C17_Witness ==
    /\ mcLast.event = "broadcast returns"
    /\ Len(mcLast.activeChannels) = 2
    /\ Len(mcLast.attempts) = 2
    /\ mcLast.attempts[1][2] # 0
    /\ mcLast.attempts[2][2] = 0
    /\ mcLast.err = mcLast.attempts[1][2]
    /\ mcLast.attempts[2][1] \in DOMAIN mc.channels
    /\ sessions[mc.channels[mcLast.attempts[2][1]]].playbackSignal # <<>>

----------------------------------------------------------------------------
(* C18 *)
\* A send is never applied to a session that LeaveChannel or Close has
\* already closed and removed: whenever SendMessage, called directly or by
\* BroadcastMessage, hands a message to a session and returns nil, that
\* session is at that moment registered under the channel's ID and its
\* queue is not closed.
C18_SendsSerialize ==
    [][\A t \in Callers :
         DeliverRan(t) /\ mcLast'.err = 0 =>
            LET c == callers[t]
                h == c.found.chatSession
            IN  /\ c.channelID \in DOMAIN mc.channels
                /\ mc.channels[c.channelID] = h
                /\ ~sessions[h].queueClosed]_vars

----------------------------------------------------------------------------
(* C19 *)

\* C19: Stop and Close may be called again on a ChatSession already stopped
\* or closed: no call panics, the inbound queue is closed at most once, and
\* each device and the audio context are released at most once.
C19_RepeatableStopClose ==
    /\ ~panicked
    /\ chat.captureUninits <= 1
    /\ chat.playbackUninits <= 1
    /\ chat.ctxFrees <= 1

----------------------------------------------------------------------------
(* C20 *)
\* Two Encode calls running concurrently on one Modem return the sample
\* buffers, and leave the phase accumulators, that the two calls made one
\* after the other, in one of the two orders, return and leave.
BothReturned == \A g \in Encoders : encoders[g].pc = "done"

\* the buffers and the accumulators after Encode(first) then Encode(second)
\* on a Modem just built
Serial(first, second) ==
    LET m == New(config)
        a == Encode(m, first)
        b == Encode([m EXCEPT !.phase = a.phase], second)
    IN  [first |-> a.output, second |-> b.output, phase |-> b.phase]

C20_EncodeThreadSafe ==
    BothReturned =>
        \/ LET r == Serial(encoders[1].data, encoders[2].data)
           IN  /\ encoders[1].output = r.first
               /\ encoders[2].output = r.second
               /\ phase = r.phase
        \/ LET r == Serial(encoders[2].data, encoders[1].data)
           IN  /\ encoders[2].output = r.first
               /\ encoders[1].output = r.second
               /\ phase = r.phase

----------------------------------------------------------------------------
(* C21 *)
\* For each channel, the messages the callback has been given under that
\* channel's ID are, in order, the first of the messages accepted into the
\* inbound queue of that channel, nothing reordered and nothing twice.
\* (Nothing is said across channels.)

\* session h was started by a JoinChannel call that returned nil
Joined(h) == sessions[h].running \/ sessions[h].queueClosed

\* the messages of the entries of log, in order
Messages(log) == [i \in 1..Len(log) |-> log[i].message]

\* the messages accepted on channel id, in the order they were accepted
AcceptedOn(id) ==
    LET keep(a) == Joined(a.session) /\ sessionChannel[a.session] = id
    IN  Messages(SelectSeq(accepted, keep))

\* the messages the callback was given for channel id, in order
CallbackOn(id) ==
    LET keep(c) == c.channelID = id
    IN  Messages(SelectSeq(callbackLog, keep))

IsPrefix(s, t) == Len(s) <= Len(t) /\ SubSeq(t, 1, Len(s)) = s

C21_PerChannelOrder ==
    \A id \in ChannelIDs : IsPrefix(CallbackOn(id), AcceptedOn(id))

----------------------------------------------------------------------------
(* C22 *)
\* For every session started by a successful JoinChannel: a message enters
\* its inbound queue only by being accepted and leaves it only by being
\* handed, once, to the callback with the ID of the channel the session was
\* joined under and the sender "Remote"; the callback is called in no other
\* way; LeaveChannel and Close leave the queued messages in the queue, and
\* the listener stays until the queue is closed and empty.
QueueOf(h) == sessions[h].messageQueue

\* the listener of session h takes the message at the head of its queue
Takes(h) ==
    /\ h \in listeners
    /\ QueueOf(h) # <<>>
    /\ sessions'[h].messageQueue = Tail(QueueOf(h))
    /\ callbackLog' = Append(callbackLog,
                             [channelID |-> sessionChannel[h], username |-> "Remote",
                              message |-> Head(QueueOf(h))])

\* the capture callback of session h puts a message on its queue
Accepts(h) ==
    /\ accepted' # accepted
    /\ accepted'[Len(accepted')].session = h
    /\ sessions'[h].messageQueue = Append(QueueOf(h), accepted'[Len(accepted')].message)
    /\ callbackLog' = callbackLog

----------------------------------------------------------------------------
(* C23 *)
\* For every float sample s the playback callback emits the 16-bit frame
\* trunc(c * 32767), where c is 1.0 if s > 1.0, -1.0 if s < -1.0 and s
\* otherwise: the frame lies in [-32767, 32767], so the conversion to int16
\* never overflows.

\* x / 1000 with the fraction dropped
Trunc1000(x) == IF x >= 0 THEN x \div 1000 ELSE -((-x) \div 1000)

\* the first frame of the device buffer out, as the device reads it
FrameOf(out) == Int16Of(out[1], out[2])

C23_ClampBeforeConversion ==
    [][chat.playbackIndex = 0 /\ chat'.playbackIndex = 1 =>
         LET s == chat.playbackSignal[1]
             c == IF s > 1000 THEN 1000 ELSE IF s < -1000 THEN -1000 ELSE s
         IN  /\ FrameOf(pOutputSample') = Trunc1000(c * 32767)
             /\ FrameOf(pOutputSample') >= -32767
             /\ FrameOf(pOutputSample') <= 32767]_vars

\* a sample of 2.0 has been emitted as 32767
C23_Witness ==
    /\ chat.playbackIndex = 1
    /\ chat.playbackSignal[1] = 2000
    /\ pOutputSample # <<>>
    /\ FrameOf(pOutputSample) = 32767

----------------------------------------------------------------------------
(* C24 *)

\* the samples the last Decode was given in front of the last encoded signal
Lead == Len(decIn) - Len(encOut)

\* the last Decode was given the last encoded signal behind some other samples
DecodedBehindLead ==
    /\ decCalled /\ nEnc > 0
    /\ Lead >= 0
    /\ SubSeq(decIn, Lead + 1, Len(decIn)) = encOut

\* the whole windows in front of the signal
LeadWindows == Lead \div symbolPeriod

\* where encoded symbol j (from 0) starts in the buffer given to Decode
SymbolStart(j) == Lead + j * symbolPeriod

\* the last encoded signal is a valid encoding: Decode returns its data from it
ValidEncoding == Decode(Modem, encOut).output = encData

Misaligned == DecodedBehindLead /\ ValidEncoding /\ Lead % symbolPeriod # 0

\* C24 as stated: whenever a number of samples that is not a multiple of
\* SymbolPeriod (one sample included) is put in front of a valid encoded
\* buffer of D, Decode returns something other than D
C24_EveryOffsetCorrupts == Misaligned => decOut # encData

\* C24, amended: Decode does not look for the start of the signal.  With k
\* samples in front of a valid encoded buffer, k not a multiple of
\* SymbolPeriod, it decodes the windows at the fixed positions i*SymbolPeriod
\* of the buffer it is given, k \div SymbolPeriod more than there are encoded
\* symbols, each of the later ones holding the end of one encoded symbol and
\* the start of the next, and leaves out the last k % SymbolPeriod samples
C24_NoResynchronization ==
    Misaligned =>
        /\ Len(decSymbols) = Len(encSymbols) + LeadWindows
        /\ \A i \in 1..Len(decWindows) :
               /\ decWindows[i].start = (i - 1) * symbolPeriod
               /\ decWindows[i].end = i * symbolPeriod
               /\ i > LeadWindows =>
                      /\ decWindows[i].start < SymbolStart(i - LeadWindows - 1)
                      /\ decWindows[i].end > SymbolStart(i - LeadWindows - 1)
        /\ Len(decWindows) * symbolPeriod = Len(decIn) - (Lead % symbolPeriod)

\* one sample in front of the encoding of "h" made Decode return other bytes
C24_Witness == Misaligned /\ Lead = 1 /\ encData = <<104>> /\ decOut # encData

----------------------------------------------------------------------------
(* C25 *)

\* both modems have decoded the sum of the two signals
BothDecoded == mix.pc = "decoded2"

\* C25: when two modems on well separated frequency ranges encode message1
\* and message2 and the signals are added sample by sample, modem1 decodes
\* the sum to message1 and modem2 decodes it to message2
C25_Isolation ==
    BothDecoded => mix.decoded1 = mix.message1 /\ mix.decoded2 = mix.message2

----------------------------------------------------------------------------
(* C26 *)

CloseRan == mcCalls' # mcCalls /\ mcLast'.event = "close"

\* the sessions a successful JoinChannel started and nothing has closed since
\* (a session whose Start failed never runs, and Close stops the session)
StillRunning(heap) == { h \in 1..Len(heap) : heap[h].running }

\* C26: when MultiChannelChat.Close returns, the channel map and the list of
\* active channels are empty and every session a successful JoinChannel
\* started has been closed, whatever joins and leaves came before, the same
\* channel ID joined twice included; a Close on a MultiChannelChat that has
\* no channel changes nothing and does not panic.
C26_CloseReleasesAll ==
    [][CloseRan =>
         /\ mc'.channels = EmptyMap
         /\ mc'.activeChans = <<>>
         /\ StillRunning(sessions') = {}
         /\ (mc.channels = EmptyMap /\ StillRunning(sessions) = {}) =>
                (sessions' = sessions /\ ~panicked')]_vars

----------------------------------------------------------------------------
(* C27 *)

\* the frames of the incoming audio from frame a (from 0) up to frame b
Heard(a, b) == CapturedOf(SubSeq(HeardStream, 2 * a + 1, 2 * b))

\* 4 symbol periods, in samples
Cadence == 4 * chat.modem.symbolPeriod

\* C27: after every capture callback the accumulator holds fewer than
\* 4*SymbolPeriod samples, and they are the frames captured last.  A callback
\* that brings it to 4*SymbolPeriod or more decodes the whole accumulator, the
\* frames left by earlier callbacks and its own, and empties it; any other
\* callback only appends its frames and decodes nothing.  The buffers decoded
\* are therefore consecutive stretches of the incoming audio, and no sample
\* is decoded twice.
C27_ReceiverCadence ==
    /\ [](~panicked =>
             /\ Len(chat.capturedSamples) < Cadence
             /\ Len(chat.capturedSamples) <= heardFrames
             /\ chat.capturedSamples =
                    Heard(heardFrames - Len(chat.capturedSamples), heardFrames))
    /\ [][CaptureRan /\ ~panicked' =>
             LET accumulator == Heard(heardFrames - Len(chat.capturedSamples), heardFrames')
             IN  IF Len(accumulator) >= Cadence
                 THEN /\ lastCapture'.decoded = Decode(chat.modem, accumulator).output
                      /\ chat'.capturedSamples = <<>>
                 ELSE /\ lastCapture'.decoded = <<>>
                      /\ chat'.capturedSamples = accumulator
                      /\ chat'.messageQueue = chat.messageQueue]_vars

\* a callback that found 2 symbol periods of frames in the accumulator and
\* brought 4 more has decoded all 6 symbols (12 bits, 2 bytes) and emptied it
C27_Witness ==
    /\ ~panicked
    /\ chatCalls.short = 1
    /\ heardFrames = 6 * chat.modem.symbolPeriod
    /\ Len(lastCapture.decoded) = 2
    /\ chat.capturedSamples = <<>>

----------------------------------------------------------------------------
(* C28 *)

\* C28: every read and every write of the play cursor and of the outbound
\* buffer, by Transmit and by the playback callback, is made while the
\* function that makes it holds the mutex of the Transmitter.
C28_AlwaysGuarded ==
    \A g \in TransmitCallers : \A a \in transmitCall[g].accesses : a.guarded

----------------------------------------------------------------------------
(* C29 *)

\* a playback callback has run in this step
PlaybackRan ==
    \E g \in TransmitCallers :
        transmitCall[g].callback = "idle" /\ transmitCall'[g].callback = "running"

\* the smaller of a and b
Min(a, b) == IF a < b THEN a ELSE b

\* C29: the play cursor of a Transmitter is never negative and never beyond
\* the end of the outbound buffer.  A playback callback for framecount frames
\* writes the samples of the buffer from the cursor on, in order, as many as
\* there are frames or samples left, and moves the cursor by that many; the
\* frames after them are silence, so once the cursor is at the end the whole
\* device buffer is silence and the cursor stays where it is.
C29_PlaybackCursor ==
    /\ [](transmitter.sampleIndex >= 0 /\ transmitter.sampleIndex <= Len(transmitter.signal))
    /\ [][PlaybackRan =>
             LET framecount == Len(pOutputSample') \div 2
                 taken == Min(framecount, Len(transmitter.signal) - transmitter.sampleIndex)
                 played == SubSeq(transmitter.signal, transmitter.sampleIndex + 1,
                                  transmitter.sampleIndex + taken)
             IN  /\ transmitter'.signal = transmitter.signal
                 /\ transmitter'.sampleIndex = transmitter.sampleIndex + taken
                 /\ SubSeq(pOutputSample', 1, 2 * taken) = FramesOf(played)
                 /\ \A n \in (2 * taken + 1)..Len(pOutputSample') : pOutputSample'[n] = 0]_vars

\* a callback that found 4 samples left to play has written them and 6 frames
\* of silence, and the cursor is at the end of the buffer
C29_Witness ==
    /\ \E g \in TransmitCallers : transmitCall[g].callback = "running"
    /\ Len(transmitter.signal) = 24
    /\ transmitter.sampleIndex = 24
    /\ Len(pOutputSample) = 20
    /\ \E n \in 1..8 : pOutputSample[n] # 0
    /\ \A n \in 9..20 : pOutputSample[n] = 0

----------------------------------------------------------------------------
(* C30 *)

\* the Transmit call of goroutine g returns in this step
TransmitReturns(g) == transmitCall[g].pc # "idle" /\ transmitCall'[g].pc = "idle"

\* C30: when Transmit returns after InitDevice gave it a device, the device
\* has been uninitialised, as the last call made on it, and when the device
\* was started Stop was called on it just before; Transmit returns an error
\* when InitDevice or Start failed, and nil otherwise.
C30_PlaybackReleased ==
    [][\A g \in TransmitCallers : TransmitReturns(g) =>
          LET before == transmitCall[g]
              after  == transmitCall'[g]
          IN  /\ before.pc \in {"init", "start", "sleep"}
              /\ before.pc = "init" =>
                     /\ after.returned = "failed to initialize playback device"
                     /\ after.device = "nil"
                     /\ after.deviceCalls = <<>>
              /\ before.pc = "start" =>
                     /\ after.returned = "failed to start playback device"
                     /\ after.device = "uninit"
                     /\ after.deviceCalls = <<"InitDevice", "Uninit">>
              /\ before.pc = "sleep" =>
                     /\ after.returned = "nil"
                     /\ after.device = "uninit"
                     /\ after.deviceCalls = <<"InitDevice", "Start", "Stop", "Uninit">>]_vars

\* one call has returned the error of Start with its device uninitialised,
\* another has played and returned nil
C30_Witness ==
    \E g, h \in TransmitCallers :
        /\ transmitCall[g].pc = "idle"
        /\ transmitCall[g].returned = "failed to start playback device"
        /\ transmitCall[g].device = "uninit"
        /\ transmitCall[h].pc = "idle"
        /\ transmitCall[h].returned = "nil"
        /\ transmitCall[h].deviceCalls = <<"InitDevice", "Start", "Stop", "Uninit">>

----------------------------------------------------------------------------
(* C31 *)

\* the channel IDs at the positions of the list
Listed(activeChans) == { activeChans[i] : i \in 1..Len(activeChans) }

\* C31: as long as the program runs, mc.activeChans holds exactly the keys
\* of mc.channels, each of them once, after any sequence of JoinChannel,
\* LeaveChannel, SendMessage, BroadcastMessage and Close, JoinChannel on an
\* ID that is already joined included.
C31_RegistryConsistent ==
    ~panicked =>
        /\ Listed(mc.activeChans) = DOMAIN mc.channels
        /\ Len(mc.activeChans) = Cardinality(DOMAIN mc.channels)

----------------------------------------------------------------------------
(* C32 *)

\* a device that is not holding anything: never initialized, or uninitialized
NotHeld(device) == device \in {"nil", "uninit"}

\* JoinChannel has returned an error after NewChatSession gave it a session
JoinFailedInStart ==
    JoinRan /\ mcLast'.err # 0 /\ Len(sessions') = Len(sessions) + 1

\* C32: when JoinChannel returns an error because ChatSession.Start failed
\* (at the capture init, the playback init, the capture start or the playback
\* start), neither device of the session it created is still initialized or
\* running, and the audio context of that session has been released.
C32_FailedJoinReleases ==
    [][JoinFailedInStart =>
         LET c == sessions'[Len(sessions')]
         IN  /\ NotHeld(c.captureDevice)
             /\ NotHeld(c.playbackDevice)
             /\ c.ctx = "freed"]_vars

----------------------------------------------------------------------------
(* C33 *)

\* the invariant of a Configuration
ValidConfiguration ==
    config.Order >= 1 /\ config.BaudRate > 0 /\ config.SampleRate > 0

\* C33: a Modem that New built from a Configuration with Order >= 1,
\* SymbolRate > 0 and SampleRate > 0 has SymbolPeriod >= 1, a symbol rate
\* above the sample rate included; so the receiver's decode threshold
\* 4*SymbolPeriod is positive and no Decode call on it divides by zero.
C33_PositivePeriod ==
    (constructed /\ ValidConfiguration) =>
        /\ symbolPeriod >= 1
        /\ 4 * symbolPeriod > 0
        /\ ~panicked

----------------------------------------------------------------------------
(* C34 *)

\* a captured sample, kept as its numerator over 32767, lies in [-1, 1]
InUnitRange(floatSample) == floatSample >= -32767 /\ floatSample <= 32767

\* C34: every sample in a capture accumulator lies in [-1, 1], whatever
\* 16-bit values in [-32768, 32767] the device frames had (a frame is
\* converted to frame / 32767).
C34_CapturedInUnitRange ==
    \A i \in 1..Len(chat.capturedSamples) : InUnitRange(chat.capturedSamples[i])

----------------------------------------------------------------------------
(* C35 *)

\* the capture callback that has just run found or brought the accumulator
\* to 4 symbol periods or more
Triggered ==
    /\ CaptureRan
    /\ Len(chat.capturedSamples) + (heardFrames' - heardFrames)
          >= 4 * chat.modem.symbolPeriod

\* C35: every capture callback that brings the accumulator to 4*SymbolPeriod
\* samples or more (SymbolPeriod >= 1) decodes a non-empty result, of at least
\* ceil(4*Order/8) bytes, and attempts to enqueue it: the message is appended
\* when fewer than 10 are pending and dropped otherwise.  This holds when all
\* captured samples are zero: silence decodes to zero bytes.  With no
\* consumer every trigger on silence therefore adds one pending message until
\* 10 are pending, and the queue is full from the tenth trigger on.
C35_EveryTriggerEnqueues ==
    [][Triggered =>
         LET decoded == lastCapture'.decoded
             pending == Len(chat.messageQueue)
         IN  /\ ~panicked'
             /\ Len(decoded) >= 1
             /\ Len(decoded) >= CeilDiv(4 * chat.modem.config.Order, 8)
             /\ \A i \in 1..Len(decoded) : decoded[i] = 0
             /\ lastCapture'.sent = (pending < QueueCapacity)
             /\ chat'.messageQueue =
                    IF pending < QueueCapacity
                    THEN Append(chat.messageQueue, decoded)
                    ELSE chat.messageQueue
             /\ Len(chat'.messageQueue) =
                    IF pending + 1 < QueueCapacity THEN pending + 1 ELSE QueueCapacity
             /\ chat'.capturedSamples = <<>>]_vars

\* ten messages of zero bytes pending after silence alone, and an eleventh
\* trigger that found the queue full
C35_Witness ==
    /\ Len(chat.messageQueue) = QueueCapacity
    /\ \A i \in 1..QueueCapacity :
          /\ Len(chat.messageQueue[i]) >= 1
          /\ \A k \in 1..Len(chat.messageQueue[i]) : chat.messageQueue[i][k] = 0
    /\ lastCapture.full
    /\ lastCapture.decoded # <<>>
    /\ ~lastCapture.sent
    /\ chat.capturedSamples = <<>>

----------------------------------------------------------------------------
(* C36 *)

\* where in the captured stream the accumulator starts
AccumulatorStart == heardFrames - Len(chat.capturedSamples)

\* C36: the decodes of a receiver stay aligned with the captured stream,
\* whatever the sizes of the device buffers: the accumulator, whose first
\* sample is where window 0 of the next decode starts, always starts at a
\* multiple of SymbolPeriod in the stream, and the windows of a decode cover
\* the accumulator to its last sample, so that no captured sample is cleared
\* without having been in a decoded window.
C36_DecodesStayAligned ==
    /\ [](~panicked => AccumulatorStart % chat.modem.symbolPeriod = 0)
    /\ [][Triggered /\ ~panicked' =>
            LET accumulator == Heard(AccumulatorStart, heardFrames')
                windows == Decode(chat.modem, accumulator).windows
            IN  /\ windows[1].start = 0
                /\ \A k \in 1..(Len(windows) - 1) : windows[k].end = windows[k + 1].start
                /\ windows[Len(windows)].end = Len(accumulator)]_vars

----------------------------------------------------------------------------
(* C37 *)

\* the bits of data fill a whole number of symbols
WholeSymbols(data) == (8 * Len(data)) % config.Order = 0

----------------------------------------------------------------------------
(* C38 *)

\* C38: no message is put on a ChatSession's inbound queue after the queue
\* has been closed.  Close stops and uninitializes the capture device before
\* it closes the queue and the device makes no callback once it is stopped,
\* so whenever the queue is closed the capture device is not running; every
\* capture callback, wherever it falls between the steps of Close, finds the
\* queue open and returns; and the contents of a closed queue never change.
C38_NoSendAfterClose ==
    /\ [](chat.queueClosed => chat.captureDevice # "started")
    /\ [][CaptureRan => ~chat.queueClosed /\ ~panicked']_vars
    /\ [][chat.queueClosed => chat'.messageQueue = chat.messageQueue]_vars

\* a Close call has returned, the queue closed, after a capture callback that
\* ran between its steps had put a message on the queue
C38_Witness ==
    /\ closeCall.step = 0
    /\ chatCalls.close = 1
    /\ chat.queueClosed
    /\ ~panicked
    /\ heardFrames > closeCall.heardFrames
    /\ lastCapture.sent
    /\ Len(chat.messageQueue) >= 1
    /\ chat.messageQueue[Len(chat.messageQueue)] = lastCapture.decoded

----------------------------------------------------------------------------
(* C39 *)

\* the play cursor is at the end of the outbound buffer
PlayedOut == chat.playbackIndex = Len(chat.playbackSignal)

\* frame i (from 1) of a device buffer
FrameAt(out, i) == Int16Of(out[2 * i - 1], out[2 * i])

\* a step that is not a SendMessage call: a playback callback
NoSendStep == chatCalls'.send = chatCalls.send

\* C39: once SendMessage calls have ceased, and with the playback device
\* calling back for at least one frame again and again, the play cursor
\* eventually equals the length of the outbound buffer and stays there.  Up
\* to then every callback emits the samples from the cursor on, in order and
\* each once (the cursor moves past exactly the samples emitted), and fills
\* the rest of its buffer with silence; once the cursor is at the end every
\* callback emits silence only.
C39_OutboundCompletes ==
    /\ (<>[][NoSendStep]_vars) => <>[]PlayedOut
    /\ [][(NoSendStep /\ pOutputSample' # <<>>) =>
            LET framecount == Len(pOutputSample') \div 2
                emitted == chat'.playbackIndex - chat.playbackIndex
            IN  /\ chat'.playbackSignal = chat.playbackSignal
                /\ emitted = Min(framecount, Len(chat.playbackSignal) - chat.playbackIndex)
                /\ \A i \in 1..emitted :
                      FrameAt(pOutputSample', i) =
                          ToInt16(Clamp(chat.playbackSignal[chat.playbackIndex + i]))
                /\ \A i \in (emitted + 1)..framecount : FrameAt(pOutputSample', i) = 0
                /\ PlayedOut => emitted = 0]_vars

\* the second message, sent while the first was being played, has been played
\* to its end, and the last callback, asking for one frame, emitted silence
C39_Witness ==
    /\ chatCalls.send = 2
    /\ chatCalls.truncated > 0
    /\ Len(chat.playbackSignal) > 0
    /\ PlayedOut
    /\ pOutputSample = <<0, 0>>

====
